---------------------------- MODULE Spec2Model ----------------------------
(***************************************************************************)
(* Model of GameLogicService (src/src/services/gameLogic.ts, lines 1-392): *)
(* the two-fighter match engine with its round clock, its AI opponent and  *)
(* its event emission.                                                     *)
(*                                                                         *)
(* Every method of the class is a pure operator from an engine record to   *)
(* an engine record, named as in the source, so that a method calling      *)
(* another (setPlayerAction -> checkHit -> endMatch) is one atomic step,   *)
(* as it is in the single-threaded event loop the code runs on.  One       *)
(* action per entry point: the three public controls, setPlayerAction, on  *)
(* and dispose, and the three timer callbacks (round clock, AI interval,   *)
(* AI revert timeout).                                                     *)
(*                                                                         *)
(* Abstractions, all stated here:                                          *)
(*  - Date.now() is not kept; each player keeps sinceLastAction, the value *)
(*    of Date.now() - lastActionTime, saturated at ActionCooldown (the     *)
(*    code only ever compares that difference with 200).  Time passes in   *)
(*    the steps of action Advance: ClockStep ms, or a whole cooldown.      *)
(*  - Timer callbacks fire at any moment while their timer is scheduled:   *)
(*    their periods (1000 ms, 1000-3000 ms, 500 ms) are not modelled.      *)
(*  - Math.random() is an input d in 0..DrawScale standing for d/DrawScale;*)
(*    d = DrawScale stands for the largest doubles below 1, for which the  *)
(*    IEEE-754 sum 0.8 + r*0.4 rounds to 1.2.                              *)
(*  - id and name of a player are constants of its index (PlayerId,        *)
(*    PlayerName); the strings are ASCII stand-ins for the source's.       *)
(***************************************************************************)
EXTENDS Integers, Sequences, FiniteSets, TLC

(* ------------------------------ bounds -------------------------------- *)

\* roundTime of the modelled engine, in seconds (the source's value is 180).
RoundTime == 2

\* totalRounds of the modelled engine (the source's value is 3).
TotalRounds == 2

\* Milliseconds that pass in one Advance step.
ClockStep == 100

\* Most AI revert timeouts that may be pending at once.
MaxPendingReverts == 1

\* Most callbacks registered for one event at once.
MaxRegistrations == 2

(* ------------------------- program constants -------------------------- *)

MaxHealth == 100

ActionCooldown == 200

MaxScoreGain == 50

ScorePerCombo == 10

\* PROCESS_INTERVAL, in ms
ProcessInterval == 100

\* the confidence above which the App forwards a gesture, in thousandths
ForwardThreshold == 500

\* Resolution of a random draw: d stands for Math.random() = d / DrawScale.
DrawScale == 1000

PlayerId(i) == IF i = 0 THEN "player1" ELSE "player2"

\* '玩家' and 'AI对手' in the source.
PlayerName(i) == IF i = 0 THEN "Player" ELSE "AIOpponent"

\* '平局' in the source.
DrawName == "Draw"

\* null in the source.
Null == "null"

AttackActions == {"jab", "cross", "hook", "uppercut"}

\* const actions = ['jab', 'cross', 'hook', 'uppercut', 'block']
AIActions == <<"jab", "cross", "hook", "uppercut", "block">>

\* enum GameEvents
GameEvents ==
    {"match_start", "match_end", "round_start", "round_end", "hit_landed",
     "block_success", "player_damaged", "score_update"}

\* The callbacks a client registers by name. "once" unsubscribes itself, by
\* off(event, once), when it is called; the others only observe.
CallbackNames == <<"first", "second", "once">>
Callbacks == {CallbackNames[k] : k \in 1..Len(CallbackNames)}
SelfRemoving == {"once"}
CallbackId(callback) == CHOOSE k \in 1..Len(CallbackNames) : CallbackNames[k] = callback

\* this.eventListeners = new Map(): no list holds a callback.
NoListeners == [event \in GameEvents |-> <<>>]

VARIABLES
    players,            \* gameState.players: 0..1 -> player record
    currentRound,       \* gameState.currentRound
    timeRemaining,      \* gameState.timeRemaining
    isMatchRunning,     \* gameState.isMatchRunning
    isPaused,           \* gameState.isPaused
    winner,             \* gameState.winner (Null for null)
    timerInterval,      \* TRUE iff this.timerInterval holds a scheduled interval
    aiActionInterval,   \* TRUE iff this.aiActionInterval holds a scheduled interval
    pendingReverts,     \* number of scheduled, not yet fired, setTimeout callbacks
    scheduledClocks,    \* number of round-clock intervals set and not cleared
    scheduledAIs,       \* number of AI intervals set and not cleared
    eventListeners,     \* the events for which this.eventListeners holds an observer
                        \* that is never removed
    listeners,          \* this.eventListeners: per event the named callbacks, in order
    disposed,           \* TRUE iff dispose() has returned
    snapshot,           \* the object getGameState() returned last, as it is now
    emitted,            \* the events emitted by the last operation, in order
    delivery,           \* per emit of the last operation: the callbacks it called
    drawn,              \* the values Math.random() gave checkHit in the last operation
    lastOp,             \* the last operation run: its name and arguments
    roundTicks,         \* round-clock callbacks run since the round began
    matchTicks,         \* round-clock callbacks run since the match began
    matchLog,           \* since MatchStart: winner assignments and MatchEnd events
    hitsLanded,         \* per player, the HitLanded events it caused in this match
    recentCall,         \* per player, the last setPlayerAction call if under 200 ms old
    hands,              \* gestureService.hands: TRUE iff it holds a detector
    isInitialized,      \* gestureService.isInitialized
    sinceLastProcess,   \* Date.now() - gestureService.lastProcessTime, up to GapCap
    appInitialized,     \* isInitialized.value of the App component
    frame,              \* the last processFrame call: what it was given and returned
    arena               \* the refs and the timer handle of the BoxingArena component

gameState == <<players, currentRound, timeRemaining, isMatchRunning, isPaused, winner>>

vars == <<players, currentRound, timeRemaining, isMatchRunning, isPaused, winner,
          timerInterval, aiActionInterval, pendingReverts, scheduledClocks,
          scheduledAIs, eventListeners, disposed,
          snapshot, listeners, delivery,
          emitted, drawn, lastOp, roundTicks, matchTicks, matchLog, hitsLanded,
          recentCall,
          hands, isInitialized, sinceLastProcess, appInitialized, frame, arena>>

\* The fields of GestureRecognitionService and of the App that drives it.
gestureVars == <<hands, isInitialized, sinceLastProcess, appInitialized, frame>>

(* --------------------------- pure helpers ----------------------------- *)

Min(a, b) == IF a < b THEN a ELSE b

Max(a, b) == IF a > b THEN a ELSE b

\* Math.random() < p, with p in thousandths.
RandomBelow(d, p) == d * 1000 < p * DrawScale

\* Math.floor(Math.random() * n); the product of a double below 1 with n stays below n.
RandomIndex(d, n) == Min((d * n) \div DrawScale, n - 1)

isAttackAction(action) == action \in AttackActions

\* Mutant of getBlockChance: the chances of jab and uppercut exchanged.
getBlockChanceSwapped(attackType) ==
    CASE attackType = "jab" -> 300
      [] attackType = "cross" -> 500
      [] attackType = "hook" -> 400
      [] attackType = "uppercut" -> 600
      [] OTHER -> 500

\* blockChances[attackType] || 0.5, in thousandths
getBlockChance(attackType) ==
    CASE attackType = "jab" -> 600
      [] attackType = "cross" -> 500
      [] attackType = "hook" -> 400
      [] attackType = "uppercut" -> 300
      [] OTHER -> 500

\* Mutant of getAttackDamage: a jab of base damage 7.
getAttackDamageWeakJab(attackType) ==
    CASE attackType = "jab" -> 7
      [] attackType = "cross" -> 12
      [] attackType = "hook" -> 15
      [] attackType = "uppercut" -> 20
      [] OTHER -> 10

\* Mutant of getAttackDamage: an uppercut of base damage 25.
getAttackDamageHeavyUppercut(attackType) ==
    CASE attackType = "jab" -> 8
      [] attackType = "cross" -> 12
      [] attackType = "hook" -> 15
      [] attackType = "uppercut" -> 25
      [] OTHER -> 10

\* damages[attackType] || 10
getAttackDamage(attackType) ==
    CASE attackType = "jab" -> 8
      [] attackType = "cross" -> 12
      [] attackType = "hook" -> 15
      [] attackType = "uppercut" -> 20
      [] OTHER -> 10

\* Mutant of rollDamage: the product rounded up instead of down.
rollDamageCeiling(baseDamage, d) ==
    (baseDamage * (8 * DrawScale + 4 * d) + 10 * DrawScale - 1) \div (10 * DrawScale)

\* Math.floor(baseDamage * (0.8 + Math.random() * 0.4))
rollDamage(baseDamage, d) == (baseDamage * (8 * DrawScale + 4 * d)) \div (10 * DrawScale)

createPlayer(i) ==
    [health |-> MaxHealth, score |-> 0, action |-> "idle", isBlocking |-> FALSE,
     comboCount |-> 0, sinceLastAction |-> 0]

createInitialGameState ==
    [players |-> [i \in 0..1 |-> createPlayer(i)],
     currentRound |-> 1,
     timeRemaining |-> RoundTime,
     isMatchRunning |-> FALSE,
     isPaused |-> FALSE,
     winner |-> Null]

\* No object returned by getGameState() yet.  In a returned object the
\* top-level fields are copies; players is the engine's own array (shared) until
\* the engine replaces its gameState, and from then on the array as it was left
\* (own).
NoSnapshot ==
    [taken |-> FALSE, shared |-> FALSE, own |-> <<>>, currentRound |-> 0,
     timeRemaining |-> 0, isMatchRunning |-> FALSE, isPaused |-> FALSE, winner |-> Null]

\* No call of Math.random() in checkHit: -1 stands for "not drawn".
NoDraws == [block |-> -1, damage |-> -1]

\* The engine as one record: the fields of gameState, the two timer handles, the
\* pending timeouts, the subscribed events, and the events emitted and the
\* random values drawn so far by the running operation.
Engine ==
    [players |-> players, currentRound |-> currentRound, timeRemaining |-> timeRemaining,
     isMatchRunning |-> isMatchRunning, isPaused |-> isPaused, winner |-> winner,
     timerInterval |-> timerInterval, aiActionInterval |-> aiActionInterval,
     pendingReverts |-> pendingReverts, scheduledClocks |-> scheduledClocks,
     scheduledAIs |-> scheduledAIs, eventListeners |-> eventListeners,
     snapshot |-> snapshot, listeners |-> listeners, delivery |-> <<>>,
     emitted |-> <<>>, drawn |-> NoDraws]

\* listeners.indexOf(callback), counted from 1; 0 for -1.
indexOf(list, callback) ==
    IF \E k \in 1..Len(list) : list[k] = callback
    THEN CHOOSE k \in 1..Len(list) :
             list[k] = callback /\ \A j \in 1..(k - 1) : list[j] # callback
    ELSE 0

\* listeners.splice(index, 1), index counted from 1.
splice(list, index) == SubSeq(list, 1, index - 1) \o SubSeq(list, index + 1, Len(list))

\* off(event, callback) on the lists of callbacks.
removeListener(l, event, callback) ==
    IF indexOf(l[event], callback) > 0
    THEN [l EXCEPT ![event] = splice(@, indexOf(l[event], callback))]
    ELSE l

\* callback(data): a callback of SelfRemoving calls off(event, itself), the
\* others only observe.
call(l, event, callback) ==
    IF callback \in SelfRemoving THEN removeListener(l, event, callback) ELSE l

\* listeners.forEach(callback => callback(data)): the indices 1..len of the
\* array as it was at the start, each called if the array still has it.
RECURSIVE forEach(_, _, _, _, _)
forEach(l, event, k, len, called) ==
    IF k > len THEN [listeners |-> l, called |-> called]
    ELSE IF k > Len(l[event]) THEN forEach(l, event, k + 1, len, called)
    ELSE forEach(call(l, event, l[event][k]), event, k + 1, len,
                 Append(called, l[event][k]))

\* The call of emit is recorded; the event reaches the observers iff one is
\* registered for its kind (see Delivered), and the named callbacks by forEach.
emit(e, event) ==
    LET r == forEach(e.listeners, event.kind, 1, Len(e.listeners[event.kind]), <<>>)
    IN  [e EXCEPT !.emitted = Append(@, event),
                  !.listeners = r.listeners,
                  !.delivery = Append(@, [kind |-> event.kind,
                                          atEmission |-> e.listeners,
                                          called |-> r.called,
                                          after |-> r.listeners])]

\* on(event, callback) for a named callback.
onCallback(e, event, callback) == [e EXCEPT !.listeners[event] = Append(@, callback)]

\* off(event, callback) for a named callback.
off(e, event, callback) == [e EXCEPT !.listeners = removeListener(@, event, callback)]

\* on(event, callback): the event has a callback from now on.
on(e, event) == [e EXCEPT !.eventListeners = @ \cup {event}]

\* if (this.timerInterval) { clearInterval(this.timerInterval); ... = null }
stopRoundTimer(e) ==
    [e EXCEPT !.timerInterval = FALSE,
              !.scheduledClocks = IF e.timerInterval THEN @ - 1 ELSE @]

\* Mutant of startRoundTimer: the interval set before is not cleared.
startRoundTimerNoStop(e) ==
    [e EXCEPT !.timerInterval = TRUE, !.scheduledClocks = @ + 1]

\* this.stopRoundTimer(); this.timerInterval = window.setInterval(...)
startRoundTimer(e) ==
    [stopRoundTimer(e) EXCEPT !.timerInterval = TRUE, !.scheduledClocks = @ + 1]

\* if (this.aiActionInterval) { clearInterval(this.aiActionInterval); ... = null }
stopAI(e) ==
    [e EXCEPT !.aiActionInterval = FALSE,
              !.scheduledAIs = IF e.aiActionInterval THEN @ - 1 ELSE @]

\* this.stopAI(); this.aiActionInterval = window.setInterval(...)
startAI(e) ==
    [stopAI(e) EXCEPT !.aiActionInterval = TRUE, !.scheduledAIs = @ + 1]

\* Mutant of resetGameState: the winner of the last match is kept.
resetGameStateKeepsWinner(e) ==
    [e EXCEPT !.players = [i \in 0..1 |->
                  [e.players[i] EXCEPT !.health = MaxHealth, !.score = 0, !.comboCount = 0]],
              !.currentRound = 1,
              !.timeRemaining = RoundTime]

\* Mutant of resetGameState: the scores of the last match are kept.
resetGameStateKeepsScore(e) ==
    [e EXCEPT !.players = [i \in 0..1 |->
                  [e.players[i] EXCEPT !.health = MaxHealth, !.comboCount = 0]],
              !.currentRound = 1,
              !.timeRemaining = RoundTime,
              !.winner = Null]

\* Mutant of resetGameState: lastActionTime of both players set to now.
resetGameStateStamps(e) ==
    [e EXCEPT !.players = [i \in 0..1 |->
                  [e.players[i] EXCEPT !.health = MaxHealth, !.score = 0, !.comboCount = 0,
                                       !.sinceLastAction = 0]],
              !.currentRound = 1,
              !.timeRemaining = RoundTime,
              !.winner = Null]

resetGameState(e) ==
    [e EXCEPT !.players = [i \in 0..1 |->
                  [e.players[i] EXCEPT !.health = MaxHealth, !.score = 0, !.comboCount = 0]],
              !.currentRound = 1,
              !.timeRemaining = RoundTime,
              !.winner = Null]

\* Mutant of decideWinner: >= for >, so that equal scores name player 0.
decideWinnerTieToFirst(e) ==
    IF e.players[0].score >= e.players[1].score THEN PlayerName(0)
    ELSE IF e.players[1].score > e.players[0].score THEN PlayerName(1)
    ELSE DrawName

decideWinner(e) ==
    IF e.players[0].score > e.players[1].score THEN PlayerName(0)
    ELSE IF e.players[1].score > e.players[0].score THEN PlayerName(1)
    ELSE DrawName

endMatch(e) ==
    LET s == [stopAI(stopRoundTimer(e)) EXCEPT !.isMatchRunning = FALSE]
        w == decideWinner(s)
    IN  emit([s EXCEPT !.winner = w], [kind |-> "match_end", winner |-> w, reset |-> FALSE])

\* Mutant of endRound: the next round begins without its RoundStart event.
endRoundSilentStart(e) ==
    LET s == emit(e, [kind |-> "round_end", round |-> e.currentRound])
    IN  IF s.currentRound < TotalRounds
        THEN startRoundTimer([s EXCEPT !.currentRound = @ + 1,
                                       !.timeRemaining = RoundTime])
        ELSE endMatch(s)

\* Mutant of endRound: the round number goes up by 2.
endRoundSkipsRound(e) ==
    LET s == emit(e, [kind |-> "round_end", round |-> e.currentRound])
    IN  IF s.currentRound < TotalRounds
        THEN LET n == startRoundTimer([s EXCEPT !.currentRound = @ + 2,
                                                !.timeRemaining = RoundTime])
             IN  emit(n, [kind |-> "round_start", round |-> n.currentRound])
        ELSE endMatch(s)

\* Mutant of endRound: a new round begins with both comboCounts at 0.
endRoundClearsCombo(e) ==
    LET s == emit(e, [kind |-> "round_end", round |-> e.currentRound])
    IN  IF s.currentRound < TotalRounds
        THEN LET n == startRoundTimer(
                          [s EXCEPT !.currentRound = @ + 1,
                                    !.timeRemaining = RoundTime,
                                    !.players = [i \in 0..1 |->
                                        [s.players[i] EXCEPT !.comboCount = 0]]])
             IN  emit(n, [kind |-> "round_start", round |-> n.currentRound])
        ELSE endMatch(s)

endRound(e) ==
    LET s == emit(e, [kind |-> "round_end", round |-> e.currentRound])
    IN  IF s.currentRound < TotalRounds
        THEN LET n == startRoundTimer([s EXCEPT !.currentRound = @ + 1,
                                                !.timeRemaining = RoundTime])
             IN  emit(n, [kind |-> "round_start", round |-> n.currentRound])
        ELSE endMatch(s)

\* startMatch past its guard: lines 110-116.
beginMatch(e) ==
    LET s == [resetGameState(e) EXCEPT !.isMatchRunning = TRUE, !.isPaused = FALSE]
    IN  startAI(startRoundTimer(emit(s, [kind |-> "match_start"])))

\* Mutant of startMatch: the guard also lets a paused match start again.
startMatchUnlessActive(e) ==
    IF e.isMatchRunning /\ ~e.isPaused THEN e ELSE beginMatch(e)

startMatch(e) == IF e.isMatchRunning THEN e ELSE beginMatch(e)

\* Mutant of pauseMatch: the guard on isMatchRunning forgotten.
pauseMatchAnytime(e) ==
    LET s == [e EXCEPT !.isPaused = ~e.isPaused]
    IN  IF s.isPaused THEN stopAI(stopRoundTimer(s))
        ELSE startAI(startRoundTimer(s))

\* Mutant of pauseMatch: pausing forgets to stop the two timers.
pauseMatchKeepsTimers(e) ==
    IF ~e.isMatchRunning THEN e
    ELSE LET s == [e EXCEPT !.isPaused = ~e.isPaused]
         IN  IF s.isPaused THEN s ELSE startAI(startRoundTimer(s))

pauseMatch(e) ==
    IF ~e.isMatchRunning THEN e
    ELSE LET s == [e EXCEPT !.isPaused = ~e.isPaused]
         IN  IF s.isPaused THEN stopAI(stopRoundTimer(s))
             ELSE startAI(startRoundTimer(s))

\* this.gameState = g: the engine has a new state object and a new players
\* array; an object that shared the old array keeps it as it was left.
replaceGameState(e, g) ==
    [e EXCEPT !.players = g.players, !.currentRound = g.currentRound,
              !.timeRemaining = g.timeRemaining,
              !.isMatchRunning = g.isMatchRunning,
              !.isPaused = g.isPaused, !.winner = g.winner,
              !.snapshot = IF e.snapshot.shared
                           THEN [e.snapshot EXCEPT !.shared = FALSE, !.own = e.players]
                           ELSE e.snapshot]

\* return { ...this.gameState }: the top-level fields copied, players shared.
getGameState(e) ==
    [e EXCEPT !.snapshot =
        [taken |-> TRUE, shared |-> TRUE, own |-> <<>>,
         currentRound |-> e.currentRound, timeRemaining |-> e.timeRemaining,
         isMatchRunning |-> e.isMatchRunning, isPaused |-> e.isPaused,
         winner |-> e.winner]]

\* The caller's snapshot.players[playerIndex].health = health.
writeSnapshotPlayer(e, playerIndex, health) ==
    IF e.snapshot.shared
    THEN [e EXCEPT !.players[playerIndex].health = health]
    ELSE [e EXCEPT !.snapshot.own[playerIndex].health = health]

\* The caller's snapshot.timeRemaining = seconds.
writeSnapshotField(e, seconds) ==
    [e EXCEPT !.snapshot.timeRemaining = seconds]

\* Mutant of resetMatch: stopAI forgotten.
resetMatchKeepsAI(e) ==
    LET s == stopRoundTimer(e)
        n == replaceGameState(s, createInitialGameState)
    IN  emit(n, [kind |-> "match_end", winner |-> Null, reset |-> TRUE])

resetMatch(e) ==
    LET s == stopAI(stopRoundTimer(e))
        n == replaceGameState(s, createInitialGameState)
    IN  emit(n, [kind |-> "match_end", winner |-> Null, reset |-> TRUE])

\* Mutant of roundTimerCallback: the round ends one tick early.
roundTimerCallbackEarly(e) ==
    IF ~e.isPaused /\ e.timeRemaining > 0
    THEN LET s == [e EXCEPT !.timeRemaining = @ - 1]
         IN  IF s.timeRemaining <= 1 THEN endRound(s) ELSE s
    ELSE e

\* Mutant of roundTimerCallback: the round does not end when the clock shows 0.
roundTimerCallbackLate(e) ==
    IF ~e.isPaused /\ e.timeRemaining > 0
    THEN LET s == [e EXCEPT !.timeRemaining = @ - 1]
         IN  IF s.timeRemaining < 0 THEN endRound(s) ELSE s
    ELSE e

\* The setInterval callback of startRoundTimer.
roundTimerCallback(e) ==
    IF ~e.isPaused /\ e.timeRemaining > 0
    THEN LET s == [e EXCEPT !.timeRemaining = @ - 1]
         IN  IF s.timeRemaining <= 0 THEN endRound(s) ELSE s
    ELSE e

\* Mutant of applyDamage: the clamp at 0 forgotten.
applyDamageUnclamped(health, damage) == health - damage

\* defender.health = Math.max(0, defender.health - damage)
applyDamage(health, damage) == Max(0, health - damage)

\* Mutant of knockout: the fighter who lands the knockout is named the winner.
knockoutAttackerWins(e, attackerIndex) ==
    LET s == [stopAI(stopRoundTimer(e)) EXCEPT !.isMatchRunning = FALSE,
                                               !.winner = PlayerName(attackerIndex)]
    IN  emit(s, [kind |-> "match_end", winner |-> PlayerName(attackerIndex),
                 reset |-> FALSE])

\* Mutant of knockout: the knockout ends the round before it ends the match.
knockoutEndsRound(e, attackerIndex) ==
    endMatch(emit(e, [kind |-> "round_end", round |-> e.currentRound]))

\* if (defender.health <= 0) { this.endMatch() }
knockout(e, attackerIndex) == endMatch(e)

\* Mutant of comboScoreGain: the cap of 50 forgotten.
comboScoreGainUncapped(comboCount) == comboCount * ScorePerCombo

\* Math.min(attacker.comboCount * 10, 50)
comboScoreGain(comboCount) == Min(comboCount * ScorePerCombo, MaxScoreGain)

checkHit(e, attackerIndex, attackType, dBlock, dDamage) ==
    LET defenderIndex == 1 - attackerIndex
        defender == e.players[defenderIndex]
    IN  IF defender.isBlocking /\ RandomBelow(dBlock, getBlockChance(attackType))
        THEN emit([e EXCEPT !.drawn.block = dBlock],
                  [kind |-> "block_success", blocker |-> PlayerId(defenderIndex),
                   attackType |-> attackType])
        ELSE LET damage == rollDamage(getAttackDamage(attackType), dDamage)
                 newHealth == applyDamage(defender.health, damage)
                 comboCount == e.players[attackerIndex].comboCount + 1
                 scoreGain == comboScoreGain(comboCount)
                 newScore == e.players[attackerIndex].score + scoreGain
                 s0 == [e EXCEPT !.players[defenderIndex].health = newHealth,
                                 !.players[attackerIndex].comboCount = comboCount,
                                 !.players[attackerIndex].score = newScore,
                                 !.drawn.block = IF defender.isBlocking THEN dBlock ELSE -1,
                                 !.drawn.damage = dDamage]
                 s1 == emit(s0, [kind |-> "hit_landed",
                                 attacker |-> PlayerId(attackerIndex),
                                 defender |-> PlayerId(defenderIndex),
                                 attackType |-> attackType, damage |-> damage,
                                 scoreGain |-> scoreGain, comboCount |-> comboCount])
                 s2 == emit(s1, [kind |-> "player_damaged",
                                 player |-> PlayerId(defenderIndex),
                                 damage |-> damage, newHealth |-> newHealth])
                 s3 == emit(s2, [kind |-> "score_update",
                                 player |-> PlayerId(attackerIndex),
                                 newScore |-> newScore])
             IN  IF newHealth <= 0 THEN knockout(s3, attackerIndex) ELSE s3

\* Mutant of inCooldown: a cooldown of 100 ms.
inCooldownShort(e, playerIndex) ==
    e.players[playerIndex].sinceLastAction < ActionCooldown \div 2

\* now - player.lastActionTime < 200
inCooldown(e, playerIndex) == e.players[playerIndex].sinceLastAction < ActionCooldown

accepts(e, playerIndex) == playerIndex \in 0..1 /\ ~inCooldown(e, playerIndex)

\* Mutant of acceptAction: a paused match still resolves hits.
acceptActionIgnoringPause(e, playerIndex, action, dBlock, dDamage) ==
    LET s == [e EXCEPT !.players[playerIndex].action = action,
                       !.players[playerIndex].isBlocking = (action = "block"),
                       !.players[playerIndex].sinceLastAction = 0]
    IN  IF isAttackAction(action) /\ s.isMatchRunning
        THEN checkHit(s, playerIndex, action, dBlock, dDamage)
        ELSE s

\* Mutant of acceptAction: an attack leaves the guard as it was.
acceptActionKeepsGuard(e, playerIndex, action, dBlock, dDamage) ==
    LET s == [e EXCEPT !.players[playerIndex].action = action,
                       !.players[playerIndex].isBlocking =
                           IF isAttackAction(action) THEN @ ELSE action = "block",
                       !.players[playerIndex].sinceLastAction = 0]
    IN  IF isAttackAction(action) /\ s.isMatchRunning /\ ~s.isPaused
        THEN checkHit(s, playerIndex, action, dBlock, dDamage)
        ELSE s

\* Mutant of acceptAction: hits are resolved whether the match runs or not.
acceptActionAfterEnd(e, playerIndex, action, dBlock, dDamage) ==
    LET s == [e EXCEPT !.players[playerIndex].action = action,
                       !.players[playerIndex].isBlocking = (action = "block"),
                       !.players[playerIndex].sinceLastAction = 0]
    IN  IF isAttackAction(action) /\ ~s.isPaused
        THEN checkHit(s, playerIndex, action, dBlock, dDamage)
        ELSE s

\* setPlayerAction past its two guards: lines 267-274.
acceptAction(e, playerIndex, action, dBlock, dDamage) ==
    LET s == [e EXCEPT !.players[playerIndex].action = action,
                       !.players[playerIndex].isBlocking = (action = "block"),
                       !.players[playerIndex].sinceLastAction = 0]
    IN  IF isAttackAction(action) /\ s.isMatchRunning /\ ~s.isPaused
        THEN checkHit(s, playerIndex, action, dBlock, dDamage)
        ELSE s

\* Mutant of setPlayerAction: a call refused by the cooldown restarts the cooldown.
setPlayerActionStamping(e, playerIndex, action, dBlock, dDamage) ==
    IF playerIndex < 0 \/ playerIndex >= 2 THEN e
    ELSE IF inCooldown(e, playerIndex)
         THEN [e EXCEPT !.players[playerIndex].sinceLastAction = 0]
    ELSE acceptAction(e, playerIndex, action, dBlock, dDamage)

setPlayerAction(e, playerIndex, action, dBlock, dDamage) ==
    IF playerIndex < 0 \/ playerIndex >= 2 THEN e
    ELSE IF inCooldown(e, playerIndex) THEN e
    ELSE acceptAction(e, playerIndex, action, dBlock, dDamage)

\* The action updateAIAction hands to setPlayerAction.
aiChoice(e, dChoice, dForce) ==
    IF e.players[0].action # "idle" /\ e.players[0].action # "block" /\ RandomBelow(dForce, 400)
    THEN "block"
    ELSE AIActions[RandomIndex(dChoice, Len(AIActions)) + 1]

\* TRUE iff updateAIAction returns from its forced-block branch.
aiForcedBlock(e, dForce) ==
    e.players[0].action # "idle" /\ e.players[0].action # "block" /\ RandomBelow(dForce, 400)

updateAIAction(e, dChoice, dForce, dBlock, dDamage) ==
    IF aiForcedBlock(e, dForce)
    THEN setPlayerAction(e, 1, "block", dBlock, dDamage)
    ELSE LET s == setPlayerAction(e, 1, aiChoice(e, dChoice, dForce), dBlock, dDamage)
         IN  [s EXCEPT !.pendingReverts = @ + 1]

\* The setInterval callback of startAI.
aiIntervalCallback(e, dChoice, dForce, dBlock, dDamage) ==
    IF ~e.isPaused /\ e.isMatchRunning
    THEN updateAIAction(e, dChoice, dForce, dBlock, dDamage)
    ELSE e

\* The setTimeout callback of updateAIAction.
aiRevertCallback(e, dRevert) ==
    LET s == [e EXCEPT !.pendingReverts = @ - 1]
    IN  IF RandomBelow(dRevert, 300) THEN setPlayerAction(s, 1, "idle", 0, 0) ELSE s

dispose(e) ==
    [stopAI(stopRoundTimer(e)) EXCEPT !.eventListeners = {}, !.listeners = NoListeners]

\* ms milliseconds pass: Date.now() - lastActionTime grows for both players.
elapse(e, ms) ==
    [e EXCEPT !.players = [i \in 0..1 |->
        [e.players[i] EXCEPT !.sinceLastAction = Min(@ + ms, ActionCooldown)]]]

(* ------------------------ gesture recognition ------------------------- *)

\* The five fingers in the order of the keys of getFingerStates' result.
Fingers == <<"thumb", "index", "middle", "ring", "pinky">>

FingerSet == {Fingers[k] : k \in 1..5}

\* FingerGestures of one extended finger.
FingerGesture(finger) ==
    CASE finger = "thumb" -> "thumb_up"
      [] finger = "index" -> "index_up"
      [] finger = "middle" -> "middle_up"
      [] finger = "ring" -> "ring_up"
      [] finger = "pinky" -> "pinky_up"

\* extension > 0.7 with extension = |tip.y - wrist.y| / fingerLength, on integer
\* coordinates <<x, y>>: both sides squared.  A finger of length 0 gives
\* Infinity (extended) when the tip is off the wrist's height and NaN (not
\* extended) when it is on it.
isFingerExtended(wrist, fingerBase, fingerTip) ==
    LET dx == fingerTip[1] - fingerBase[1]
        dy == fingerTip[2] - fingerBase[2]
        dw == fingerTip[2] - wrist[2]
    IN  100 * dw * dw > 49 * (dx * dx + dy * dy)

\* landmarks: the wrist (landmark 0) and per finger its base and its tip
\* (landmarks 1/4, 5/8, 9/12, 13/16, 17/20).
getFingerStates(landmarks) ==
    [f \in FingerSet |->
        isFingerExtended(landmarks.wrist, landmarks.base[f], landmarks.tip[f])]

\* Object.values(fingerStates).filter(Boolean).length
extendedCount(fingerStates) == Cardinality({f \in FingerSet : fingerStates[f]})

\* extendedFingers[0]: the first extended finger in key order.
firstExtended(fingerStates) ==
    Fingers[CHOOSE k \in 1..5 :
                /\ fingerStates[Fingers[k]]
                /\ \A j \in 1..(k - 1) : ~fingerStates[Fingers[j]]]

\* Mutant of classifyFingerGesture: open palm from 4 extended fingers on.
classifyFingerGestureStrict(landmarks) ==
    LET fingerStates == getFingerStates(landmarks)
        n == extendedCount(fingerStates)
    IN  IF n >= 4 THEN "open_palm"
        ELSE IF n = 0 THEN "fist"
        ELSE IF n = 1 THEN FingerGesture(firstExtended(fingerStates))
        ELSE IF n = 2 /\ fingerStates["index"] THEN "index_up"
        ELSE "idle"

classifyFingerGesture(landmarks) ==
    LET fingerStates == getFingerStates(landmarks)
        n == extendedCount(fingerStates)
    IN  IF n >= 3 THEN "open_palm"
        ELSE IF n = 0 THEN "fist"
        ELSE IF n = 1 THEN FingerGesture(firstExtended(fingerStates))
        ELSE IF n = 2 /\ fingerStates["index"] THEN "index_up"
        ELSE "idle"

\* The switch of calculateGestureConfidence, in thousandths.
rawConfidence(fingerStates, gesture) ==
    LET n == extendedCount(fingerStates)
        single(f) == IF fingerStates[f] /\ n = 1 THEN 900 ELSE 300
    IN  CASE gesture = "thumb_up" -> single("thumb")
          [] gesture = "index_up" -> single("index")
          [] gesture = "middle_up" -> single("middle")
          [] gesture = "ring_up" -> single("ring")
          [] gesture = "pinky_up" -> single("pinky")
          [] gesture = "fist" -> IF n = 0 THEN 950 ELSE 200
          [] gesture = "open_palm" -> IF n >= 4 THEN 850 ELSE 300
          [] OTHER -> 100

\* Mutant of calculateGestureConfidence: the clamp at 0.1 and 1.0 at 0.5 and 1.0.
calculateGestureConfidenceFloor(landmarks, gesture) ==
    Max(500, Min(1000, rawConfidence(getFingerStates(landmarks), gesture)))

\* Math.max(0.1, Math.min(1.0, confidence)), in thousandths
calculateGestureConfidence(landmarks, gesture) ==
    Max(100, Min(1000, rawConfidence(getFingerStates(landmarks), gesture)))

\* The value that stands for every difference of times above PROCESS_INTERVAL.
GapCap == ProcessInterval + 1

\* The fields of the service as one record.
Classifier ==
    [hands |-> hands, isInitialized |-> isInitialized,
     sinceLastProcess |-> sinceLastProcess]

\* initialize(): outcome is "unavailable" (the import gives null: return),
\* "throws" (the construction throws; the error is thrown on) or "ok".
initialize(c, outcome) ==
    IF outcome = "ok" THEN [c EXCEPT !.hands = TRUE, !.isInitialized = TRUE] ELSE c

\* dispose() of the gesture service.
disposeGesture(c) == [c EXCEPT !.hands = FALSE, !.isInitialized = FALSE]

\* The loop of processFrame over results.multiHandLandmarks.
classifyHands(multiHandLandmarks) ==
    [k \in 1..Len(multiHandLandmarks) |->
        LET gesture == classifyFingerGesture(multiHandLandmarks[k])
        IN  [gesture |-> gesture,
             confidence |-> calculateGestureConfidence(multiHandLandmarks[k], gesture),
             landmarks |-> multiHandLandmarks[k]]]

\* What a call of processFrame gives: the service after it, the list returned,
\* whether the frame went to the detector and whether an error left the call.
FrameOutcome(c, results, sent, threw) ==
    [c |-> c, results |-> results, sent |-> sent, threw |-> threw]

\* Mutant of processFrame: <= for <, a frame 100 ms after the last is skipped.
processFrameLate(c, detection) ==
    IF ~c.isInitialized \/ ~c.hands THEN FrameOutcome(c, <<>>, FALSE, FALSE)
    ELSE IF c.sinceLastProcess <= ProcessInterval /\ c.sinceLastProcess # ProcessInterval + 1
    THEN FrameOutcome(c, <<>>, FALSE, FALSE)
    ELSE LET s == [c EXCEPT !.sinceLastProcess = 0]
         IN  IF detection.kind \in {"throws", "undefined"}
             THEN FrameOutcome(s, <<>>, TRUE, FALSE)
             ELSE FrameOutcome(s, classifyHands(detection.multiHandLandmarks), TRUE, FALSE)

\* Mutant of processFrame: no catch around the detector.
processFrameNoCatch(c, detection) ==
    IF ~c.isInitialized \/ ~c.hands THEN FrameOutcome(c, <<>>, FALSE, FALSE)
    ELSE IF c.sinceLastProcess < ProcessInterval THEN FrameOutcome(c, <<>>, FALSE, FALSE)
    ELSE LET s == [c EXCEPT !.sinceLastProcess = 0]
         IN  IF detection.kind \in {"throws", "undefined"}
             THEN FrameOutcome(s, <<>>, TRUE, TRUE)
             ELSE FrameOutcome(s, classifyHands(detection.multiHandLandmarks), TRUE, FALSE)

\* processFrame: detection is what this.hands.send gives for the frame: it
\* throws, it gives undefined (reading a property of it throws; caught), or it
\* gives results with a list multiHandLandmarks, empty when no hand is seen.
processFrame(c, detection) ==
    IF ~c.isInitialized \/ ~c.hands THEN FrameOutcome(c, <<>>, FALSE, FALSE)
    ELSE IF c.sinceLastProcess < ProcessInterval THEN FrameOutcome(c, <<>>, FALSE, FALSE)
    ELSE LET s == [c EXCEPT !.sinceLastProcess = 0]
         IN  IF detection.kind \in {"throws", "undefined"}
             THEN FrameOutcome(s, <<>>, TRUE, FALSE)
             ELSE FrameOutcome(s, classifyHands(detection.multiHandLandmarks), TRUE, FALSE)

\* handleFrame made no call of setPlayerAction.
NoIntent == "none"

\* results.reduce((best, current) =>
\*     current.confidence > best.confidence ? current : best)
bestResult(results) ==
    results[CHOOSE k \in 1..Len(results) :
                /\ \A j \in 1..Len(results) : results[j].confidence <= results[k].confidence
                /\ \A j \in 1..(k - 1) : results[j].confidence < results[k].confidence]

\* The action handleFrame hands to setPlayerAction(0, .) for what processFrame
\* gave, or NoIntent.
forwardedAction(results, threw) ==
    IF threw THEN "idle"
    ELSE IF Len(results) > 0
         THEN IF bestResult(results).confidence > ForwardThreshold
              THEN bestResult(results).gesture
              ELSE NoIntent
         ELSE "idle"

(* ---------------------------- BoxingArena ----------------------------- *)

\* The refs of the component as its setup leaves them, with the props
\* totalRounds and roundTime at the engine's values.
createArena ==
    [currentRound |-> 1, timeRemaining |-> RoundTime, isMatchRunning |-> FALSE,
     isPaused |-> FALSE, leftScore |-> 0, rightScore |-> 0,
     leftHealth |-> MaxHealth, rightHealth |-> MaxHealth, timerInterval |-> FALSE]

arenaStopTimer(a) == [a EXCEPT !.timerInterval = FALSE]

arenaStartTimer(a) == [arenaStopTimer(a) EXCEPT !.timerInterval = TRUE]

arenaEndMatch(a) == [a EXCEPT !.isMatchRunning = FALSE]

arenaEndRound(a) ==
    LET s == arenaStopTimer(a)
    IN  IF s.currentRound < TotalRounds
        THEN arenaStartTimer([s EXCEPT !.currentRound = @ + 1,
                                       !.timeRemaining = RoundTime])
        ELSE arenaEndMatch(s)

\* The setInterval callback of startTimer.
arenaTimerCallback(a) ==
    IF ~a.isPaused /\ a.timeRemaining > 0
    THEN LET s == [a EXCEPT !.timeRemaining = @ - 1]
         IN  IF s.timeRemaining <= 0 THEN arenaEndRound(s) ELSE s
    ELSE a

arenaStartMatch(a) ==
    IF a.isMatchRunning THEN a
    ELSE arenaStartTimer([a EXCEPT !.isMatchRunning = TRUE, !.isPaused = FALSE,
                                   !.timeRemaining = RoundTime])

arenaPauseMatch(a) ==
    IF ~a.isMatchRunning THEN a
    ELSE LET s == [a EXCEPT !.isPaused = ~a.isPaused]
         IN  IF s.isPaused THEN arenaStopTimer(s) ELSE arenaStartTimer(s)

arenaResetMatch(a) ==
    [arenaStopTimer(a) EXCEPT !.currentRound = 1, !.timeRemaining = RoundTime,
                              !.isMatchRunning = FALSE, !.isPaused = FALSE,
                              !.leftScore = 0, !.rightScore = 0,
                              !.leftHealth = MaxHealth, !.rightHealth = MaxHealth]

(* ------------------------------ actions ------------------------------- *)

Op(name, idx, sym, accepted) ==
    [op |-> name, idx |-> idx, sym |-> sym, accepted |-> accepted]

HasEvent(events, kind) == \E k \in 1..Len(events) : events[k].kind = kind

\* The observer of the round clock: callbacks run since the round or the match began.
CountTicks(e, op) ==
    IF HasEvent(e.emitted, "round_start") \/ HasEvent(e.emitted, "match_start")
       \/ op.op = "resetMatch"
    THEN 0
    ELSE IF op.op = "roundTimer" THEN roundTicks + 1 ELSE roundTicks

\* The observer of the match clock: callbacks run since the match began.
CountMatchTicks(e, op) ==
    IF HasEvent(e.emitted, "match_start") \/ op.op = "resetMatch"
    THEN 0
    ELSE IF op.op = "roundTimer" THEN matchTicks + 1 ELSE matchTicks

\* The number of events of a kind among those of one operation.
CountEvents(events, kind) ==
    Cardinality({k \in 1..Len(events) : events[k].kind = kind})

NoMatch == [open |-> FALSE, winnerSets |-> 0, matchEnds |-> 0]

\* The observer of the match: opened by MatchStart and closed by reset(), it
\* counts the changes of winner to a value other than null and the MatchEnd
\* events.
CountMatch(e, op) ==
    IF HasEvent(e.emitted, "match_start")
    THEN [open |-> TRUE, winnerSets |-> 0, matchEnds |-> 0]
    ELSE IF op.op = "resetMatch" THEN NoMatch
    ELSE [matchLog EXCEPT
            !.winnerSets = @ + (IF e.winner # winner /\ e.winner # Null THEN 1 ELSE 0),
            !.matchEnds = @ + CountEvents(e.emitted, "match_end")]

\* The observer of the hits: per player the HitLanded events that name it as
\* the attacker, counted from MatchStart or reset().
CountHits(e, op) ==
    IF HasEvent(e.emitted, "match_start") \/ op.op = "resetMatch"
    THEN [i \in 0..1 |-> 0]
    ELSE [i \in 0..1 |->
             hitsLanded[i]
               + Cardinality({k \in 1..Len(e.emitted) :
                                 /\ e.emitted[k].kind = "hit_landed"
                                 /\ e.emitted[k].attacker = PlayerId(i)})]

CommitState(e, op) ==
    /\ players' = e.players
    /\ currentRound' = e.currentRound
    /\ timeRemaining' = e.timeRemaining
    /\ isMatchRunning' = e.isMatchRunning
    /\ isPaused' = e.isPaused
    /\ winner' = e.winner
    /\ timerInterval' = e.timerInterval
    /\ aiActionInterval' = e.aiActionInterval
    /\ pendingReverts' = e.pendingReverts
    /\ scheduledClocks' = e.scheduledClocks
    /\ scheduledAIs' = e.scheduledAIs
    /\ eventListeners' = e.eventListeners
    /\ snapshot' = e.snapshot
    /\ listeners' = e.listeners
    /\ delivery' = e.delivery
    /\ disposed' = (disposed \/ op.op = "dispose")
    /\ emitted' = e.emitted
    /\ drawn' = e.drawn
    /\ lastOp' = op
    /\ roundTicks' = CountTicks(e, op)
    /\ matchTicks' = CountMatchTicks(e, op)
    /\ matchLog' = CountMatch(e, op)
    /\ hitsLanded' = CountHits(e, op)

\* A step in which the BoxingArena component stays.
CommitEngine(e, op) ==
    /\ CommitState(e, op)
    /\ UNCHANGED arena

\* A step of the engine alone: the gesture service and the App stay.
Commit(e, op) ==
    /\ CommitEngine(e, op)
    /\ UNCHANGED gestureVars

NoCall == [sym |-> "none", accepted |-> FALSE, since |-> 0, reset |-> FALSE]

\* The observer of the calls: track says whether the specification keeps it.
NoteCall(track, called, playerIndex, action, accepted) ==
    recentCall' =
        IF track /\ called /\ playerIndex \in 0..1
        THEN [recentCall EXCEPT ![playerIndex] =
                 [sym |-> action, accepted |-> accepted, since |-> 0, reset |-> FALSE]]
        ELSE recentCall

NoteReset(track) ==
    recentCall' =
        IF track
        THEN [i \in 0..1 |-> IF recentCall[i].sym = "none" THEN NoCall
                             ELSE [recentCall[i] EXCEPT !.reset = TRUE]]
        ELSE recentCall

NoteElapsed(track, ms) ==
    recentCall' =
        IF track
        THEN [i \in 0..1 |-> IF recentCall[i].sym = "none"
                                \/ recentCall[i].since + ms >= ActionCooldown
                             THEN NoCall
                             ELSE [recentCall[i] EXCEPT !.since = @ + ms]]
        ELSE recentCall

\* No call of processFrame yet, no frame handed to the detector yet.
NoFrame ==
    [sinceSent |-> GapCap, gap |-> GapCap, ready |-> FALSE,
     detection |-> [kind |-> "none"],
     results |-> <<>>, sent |-> FALSE, threw |-> FALSE]

\* The observer of processFrame, with a clock of its own: sinceSent is the ms
\* since a frame was last handed to the detector, gap its value when the last
\* call came; then the readiness of the service at the call, what the detector
\* had for the frame, and what the call gave.
NoteFrame(detection, r) ==
    frame' = [sinceSent |-> IF r.sent THEN 0 ELSE frame.sinceSent,
              gap |-> frame.sinceSent, ready |-> isInitialized /\ hands,
              detection |-> detection, results |-> r.results,
              sent |-> r.sent, threw |-> r.threw]

SetClassifier(c) ==
    /\ hands' = c.hands
    /\ isInitialized' = c.isInitialized
    /\ sinceLastProcess' = c.sinceLastProcess

Init ==
    /\ players = createInitialGameState.players
    /\ currentRound = createInitialGameState.currentRound
    /\ timeRemaining = createInitialGameState.timeRemaining
    /\ isMatchRunning = createInitialGameState.isMatchRunning
    /\ isPaused = createInitialGameState.isPaused
    /\ winner = createInitialGameState.winner
    /\ timerInterval = FALSE
    /\ aiActionInterval = FALSE
    /\ pendingReverts = 0
    /\ scheduledClocks = 0
    /\ scheduledAIs = 0
    /\ eventListeners = {}
    /\ snapshot = NoSnapshot
    /\ listeners = NoListeners
    /\ delivery = <<>>
    /\ disposed = FALSE
    /\ emitted = <<>>
    /\ drawn = NoDraws
    /\ lastOp = Op("new", -1, "", FALSE)
    /\ roundTicks = 0
    /\ matchTicks = 0
    /\ matchLog = NoMatch
    /\ hitsLanded = [i \in 0..1 |-> 0]
    /\ recentCall = [i \in 0..1 |-> NoCall]
    /\ hands = FALSE
    /\ isInitialized = FALSE
    /\ sinceLastProcess = GapCap
    /\ appInitialized = FALSE
    /\ frame = NoFrame
    /\ arena = createArena

StartMatch ==
    /\ Commit(startMatch(Engine), Op("startMatch", -1, "", ~isMatchRunning))
    /\ UNCHANGED recentCall

PauseMatch ==
    /\ Commit(pauseMatch(Engine), Op("pauseMatch", -1, "", isMatchRunning))
    /\ UNCHANGED recentCall

ResetMatch(track) ==
    /\ Commit(resetMatch(Engine), Op("resetMatch", -1, "", TRUE))
    /\ NoteReset(track)

SetPlayerAction(track, playerIndex, action, dBlock, dDamage) ==
    /\ Commit(setPlayerAction(Engine, playerIndex, action, dBlock, dDamage),
              Op("setPlayerAction", playerIndex, action, accepts(Engine, playerIndex)))
    /\ NoteCall(track, TRUE, playerIndex, action, accepts(Engine, playerIndex))

RoundTimerTick ==
    /\ timerInterval
    /\ Commit(roundTimerCallback(Engine), Op("roundTimer", -1, "", TRUE))
    /\ UNCHANGED recentCall

AIIntervalTick(track, dChoice, dForce, dBlock, dDamage) ==
    /\ aiActionInterval
    /\ pendingReverts < MaxPendingReverts
    /\ Commit(aiIntervalCallback(Engine, dChoice, dForce, dBlock, dDamage),
              Op("aiInterval", 1, aiChoice(Engine, dChoice, dForce),
                 ~isPaused /\ isMatchRunning /\ accepts(Engine, 1)))
    /\ NoteCall(track, ~isPaused /\ isMatchRunning, 1,
                aiChoice(Engine, dChoice, dForce), accepts(Engine, 1))

AIRevertTimeout(track, dRevert) ==
    /\ pendingReverts > 0
    /\ Commit(aiRevertCallback(Engine, dRevert),
              Op("aiRevert", 1, "idle", RandomBelow(dRevert, 300) /\ accepts(Engine, 1)))
    /\ NoteCall(track, RandomBelow(dRevert, 300), 1, "idle", accepts(Engine, 1))

On(event) ==
    /\ Commit(on(Engine, event), Op("on", -1, event, TRUE))
    /\ UNCHANGED recentCall

\* on(event, callback) with a named callback; in lastOp, idx is the
\* callback's number.
OnCallback(event, callback) ==
    /\ Len(listeners[event]) < MaxRegistrations
    /\ Commit(onCallback(Engine, event, callback),
              Op("onCallback", CallbackId(callback), event, TRUE))
    /\ UNCHANGED recentCall

\* off(event, callback) with a named callback.
Off(event, callback) ==
    /\ Commit(off(Engine, event, callback),
              Op("off", CallbackId(callback), event, indexOf(listeners[event], callback) > 0))
    /\ UNCHANGED recentCall

Dispose ==
    /\ Commit(dispose(Engine), Op("dispose", -1, "", TRUE))
    /\ UNCHANGED recentCall

GetGameState ==
    /\ Commit(getGameState(Engine), Op("getGameState", -1, "", TRUE))
    /\ UNCHANGED recentCall

WriteSnapshotPlayer(playerIndex, health) ==
    /\ snapshot.taken
    /\ Commit(writeSnapshotPlayer(Engine, playerIndex, health),
              Op("writeSnapshot", playerIndex, "health", TRUE))
    /\ UNCHANGED recentCall

WriteSnapshotField(time) ==
    /\ snapshot.taken
    /\ Commit(writeSnapshotField(Engine, time), Op("writeSnapshot", -1, "timeRemaining", TRUE))
    /\ UNCHANGED recentCall

Initialize(outcome) ==
    /\ CommitEngine(Engine, Op("initialize", -1, outcome, outcome = "ok"))
    /\ SetClassifier(initialize(Classifier, outcome))
    /\ UNCHANGED <<appInitialized, frame, recentCall>>

DisposeGesture ==
    /\ CommitEngine(Engine, Op("disposeGesture", -1, "", TRUE))
    /\ SetClassifier(disposeGesture(Classifier))
    /\ UNCHANGED <<appInitialized, frame, recentCall>>

ProcessFrame(detection) ==
    LET r == processFrame(Classifier, detection)
    IN  /\ CommitEngine(Engine, Op("processFrame", -1, detection.kind, r.sent))
        /\ SetClassifier(r.c)
        /\ NoteFrame(detection, r)
        /\ UNCHANGED <<appInitialized, recentCall>>

\* onMounted of the App: initialize the gesture service and, unless that
\* throws, set the App's flag and subscribe to PLAYER_DAMAGED and HIT_LANDED.
OnMounted(outcome) ==
    /\ CommitEngine(IF outcome = "throws" THEN Engine
                    ELSE on(on(Engine, "player_damaged"), "hit_landed"),
                    Op("onMounted", -1, outcome, outcome # "throws"))
    /\ SetClassifier(initialize(Classifier, outcome))
    /\ appInitialized' = (appInitialized \/ outcome # "throws")
    /\ UNCHANGED <<frame, recentCall>>

\* handleFrame of the App: nothing before the App is initialized; then
\* processFrame and the call of setPlayerAction(0, .) that follows from it.
HandleFrame(detection) ==
    LET r == processFrame(Classifier, detection)
        a == forwardedAction(r.results, r.threw)
    IN  IF ~appInitialized
        THEN /\ CommitEngine(Engine, Op("handleFrame", -1, NoIntent, FALSE))
             /\ UNCHANGED <<gestureVars, recentCall>>
        ELSE /\ CommitEngine(IF a = NoIntent THEN Engine
                              ELSE setPlayerAction(Engine, 0, a, 0, 0),
                              Op("handleFrame", IF a = NoIntent THEN -1 ELSE 0, a,
                                 a # NoIntent /\ accepts(Engine, 0)))
             /\ SetClassifier(r.c)
             /\ NoteFrame(detection, r)
             /\ UNCHANGED <<appInitialized, recentCall>>

\* One control given to the engine and to the BoxingArena component alike.
BothStartMatch ==
    /\ CommitState(startMatch(Engine), Op("startMatch", -1, "", ~isMatchRunning))
    /\ arena' = arenaStartMatch(arena)
    /\ UNCHANGED <<gestureVars, recentCall>>

BothPauseMatch ==
    /\ CommitState(pauseMatch(Engine), Op("pauseMatch", -1, "", isMatchRunning))
    /\ arena' = arenaPauseMatch(arena)
    /\ UNCHANGED <<gestureVars, recentCall>>

BothResetMatch ==
    /\ CommitState(resetMatch(Engine), Op("resetMatch", -1, "", TRUE))
    /\ arena' = arenaResetMatch(arena)
    /\ UNCHANGED <<gestureVars, recentCall>>

\* One second passes: the round clock of the engine and the timer of the
\* component, whichever is scheduled, run their callbacks.
BothTick ==
    /\ timerInterval \/ arena.timerInterval
    /\ CommitState(IF timerInterval THEN roundTimerCallback(Engine) ELSE Engine,
                   Op(IF timerInterval THEN "roundTimer" ELSE "arenaTimer", -1, "", TRUE))
    /\ arena' = IF arena.timerInterval THEN arenaTimerCallback(arena) ELSE arena
    /\ UNCHANGED <<gestureVars, recentCall>>

\* ms milliseconds pass, for the engine and for the gesture service.
Advance(track, ms) ==
    /\ \/ \E i \in 0..1 : inCooldown(Engine, i)
       \/ sinceLastProcess < GapCap
       \/ frame.sinceSent < GapCap
    /\ CommitEngine(elapse(Engine, ms), Op("advance", -1, "", TRUE))
    /\ sinceLastProcess' = Min(sinceLastProcess + ms, GapCap)
    /\ frame' = [frame EXCEPT !.sinceSent = Min(@ + ms, GapCap)]
    /\ UNCHANGED <<hands, isInitialized, appInitialized>>
    /\ NoteElapsed(track, ms)

(* --------------------------- specifications --------------------------- *)

(***************************************************************************)
(* Spec: the single-player deployment.  The gesture input drives player 0, *)
(* the AI drives player 1; every control, every timer callback.  Attacks   *)
(* are uppercuts of 23 damage, so that the fifth one knocks out with the   *)
(* health clamped at 0.                                                    *)
(***************************************************************************)
Symbols == {"idle", "block", "uppercut"}

BlockDraws == {0, 999}

DamageDraws == {999}

\* floor(0.7 * 5) = 3: uppercut; floor(0.9 * 5) = 4: block
ChoiceDraws == {700, 900}

ForceDraws == {0, 999}

RevertDraws == {0, 999}

Next ==
    \/ StartMatch
    \/ PauseMatch
    \/ ResetMatch(FALSE)
    \/ \E a \in Symbols, dBlock \in BlockDraws, dDamage \in DamageDraws :
           SetPlayerAction(FALSE, 0, a, dBlock, dDamage)
    \/ RoundTimerTick
    \/ \E dChoice \in ChoiceDraws, dForce \in ForceDraws,
          dBlock \in BlockDraws, dDamage \in DamageDraws :
           AIIntervalTick(FALSE, dChoice, dForce, dBlock, dDamage)
    \/ \E dRevert \in RevertDraws : AIRevertTimeout(FALSE, dRevert)
    \/ Advance(FALSE, ActionCooldown)

Spec == Init /\ [][Next]_vars

(***************************************************************************)
(* SpecCombat: both players driven from outside, with the weakest and the  *)
(* strongest uppercut (16 and 24 damage), to the knockout or to the end of *)
(* the last round.                                                         *)
(***************************************************************************)
CombatSymbols == {"uppercut"}

CombatDamageDraws == {0, DrawScale}

NextCombat ==
    \/ StartMatch
    \/ \E i \in 0..1, a \in CombatSymbols, dDamage \in CombatDamageDraws :
           SetPlayerAction(FALSE, i, a, 0, dDamage)
    \/ RoundTimerTick
    \/ Advance(FALSE, ActionCooldown)

SpecCombat == Init /\ [][NextCombat]_vars

(***************************************************************************)
(* SpecCalls: setPlayerAction with every index, valid or not, on an engine *)
(* that is idle, running, paused or ended, in steps of ClockStep ms.       *)
(***************************************************************************)
CallIndexes == {-1, 0, 1, 2}

CallSymbols == {"idle", "block", "uppercut"}

NextCalls ==
    \/ StartMatch
    \/ PauseMatch
    \/ ResetMatch(FALSE)
    \/ \E i \in CallIndexes, a \in CallSymbols, dBlock \in BlockDraws :
           SetPlayerAction(FALSE, i, a, dBlock, DrawScale)
    \/ Advance(FALSE, ClockStep)

SpecCalls == Init /\ [][NextCalls]_vars

(***************************************************************************)
(* SpecDebounce: the calls on both players in steps of ClockStep ms, with  *)
(* the observer of the recent calls.                                       *)
(***************************************************************************)
DebounceSymbols == {"block", "uppercut"}

NextDebounce ==
    \/ StartMatch
    \/ ResetMatch(TRUE)
    \/ \E i \in 0..1, a \in DebounceSymbols :
           SetPlayerAction(TRUE, i, a, 0, DrawScale)
    \/ Advance(TRUE, ClockStep)

SpecDebounce == Init /\ [][NextDebounce]_vars

(***************************************************************************)
(* SpecDispose: a subscribed engine with its round clock and its AI, that  *)
(* is disposed of at any moment and, as its contract says, not called      *)
(* again; what was scheduled before keeps its course.                      *)
(***************************************************************************)
ListenedEvents == {"hit_landed"}

DisposeSymbols == {"uppercut"}

NextDispose ==
    \/ /\ ~disposed
       /\ \/ \E event \in ListenedEvents : On(event)
          \/ StartMatch
          \/ PauseMatch
          \/ \E a \in DisposeSymbols : SetPlayerAction(FALSE, 0, a, 0, DrawScale)
          \/ Dispose
    \/ RoundTimerTick
    \/ \E dChoice \in ChoiceDraws, dForce \in ForceDraws :
           AIIntervalTick(FALSE, dChoice, dForce, 0, DrawScale)
    \/ \E dRevert \in RevertDraws : AIRevertTimeout(FALSE, dRevert)
    \/ Advance(FALSE, ActionCooldown)

SpecDispose == Init /\ [][NextDispose]_vars

(***************************************************************************)
(* SpecQuiet: matches in which nobody attacks and nobody pauses or resets: *)
(* player 0 idles or blocks, the AI draws its block.  SpecQuietFair adds   *)
(* what setInterval gives: a scheduled round clock keeps ticking.          *)
(***************************************************************************)
QuietSymbols == {"idle", "block"}

\* floor(0.9 * 5) = 4: block
QuietChoiceDraws == {900}

NextQuiet ==
    \/ StartMatch
    \/ \E a \in QuietSymbols : SetPlayerAction(FALSE, 0, a, 0, DrawScale)
    \/ RoundTimerTick
    \/ \E dChoice \in QuietChoiceDraws, dForce \in ForceDraws :
           AIIntervalTick(FALSE, dChoice, dForce, 0, DrawScale)
    \/ \E dRevert \in RevertDraws : AIRevertTimeout(FALSE, dRevert)
    \/ Advance(FALSE, ActionCooldown)

SpecQuiet == Init /\ [][NextQuiet]_vars

SpecQuietFair == SpecQuiet /\ WF_vars(RoundTimerTick)

(***************************************************************************)
(* SpecBlock: player 0 throws each of the four attacks at a player 1 who   *)
(* blocks or drops the guard, with block draws on both sides of each of    *)
(* the four thresholds; the hits that land are the strongest.              *)
(***************************************************************************)
GuardSymbols == {"idle", "block"}

ThresholdDraws == {200, 299, 300, 399, 400, 499, 500, 599, 600}

NextBlock ==
    \/ StartMatch
    \/ \E a \in AttackActions, dBlock \in ThresholdDraws :
           SetPlayerAction(FALSE, 0, a, dBlock, DrawScale)
    \/ \E a \in GuardSymbols : SetPlayerAction(FALSE, 1, a, 0, DrawScale)
    \/ Advance(FALSE, ActionCooldown)

SpecBlock == Init /\ [][NextBlock]_vars

(***************************************************************************)
(* SpecDamage: player 0 throws each of the four attacks at an unguarded    *)
(* player 1, with damage draws from 0 to the largest, in eighths.          *)
(***************************************************************************)
DamageRollDraws == {(k * DrawScale) \div 8 : k \in 0..8}

NextDamage ==
    \/ StartMatch
    \/ \E a \in AttackActions, dDamage \in DamageRollDraws :
           SetPlayerAction(FALSE, 0, a, 0, dDamage)
    \/ Advance(FALSE, ActionCooldown)

SpecDamage == Init /\ [][NextDamage]_vars

(***************************************************************************)
(* SpecSnapshot: a caller takes the object getGameState() returns, keeps   *)
(* it while the engine is started, reset and player 0 acts, and writes a   *)
(* health of 1 or a clock of 0 into it.                                    *)
(***************************************************************************)
SnapshotSymbols == {"block", "uppercut"}

NextSnapshot ==
    \/ StartMatch
    \/ ResetMatch(FALSE)
    \/ \E a \in SnapshotSymbols : SetPlayerAction(FALSE, 0, a, 0, DrawScale)
    \/ GetGameState
    \/ \E i \in 0..1 : WriteSnapshotPlayer(i, 1)
    \/ WriteSnapshotField(0)
    \/ Advance(FALSE, ActionCooldown)

SpecSnapshot == Init /\ [][NextSnapshot]_vars

(***************************************************************************)
(* SpecClassify: the gesture service, initialized with every outcome and   *)
(* disposed of, is given frames every 100 ms: the detector throws, gives   *)
(* undefined, sees no hand, sees one hand (each of the 32 combinations of  *)
(* extended and folded fingers, and hands with a finger at the threshold   *)
(* or of length 0), or sees two hands.                                     *)
(***************************************************************************)
Wrist == <<0, 0>>

\* "extended": straight up, extension 2; "folded": tip near the wrist's
\* height, extension 0.35; "threshold": extension exactly 0.7; "point": tip on
\* the base, a finger of length 0.
Poses == {"extended", "folded", "threshold", "point"}

PoseBase(pose) ==
    CASE pose = "extended" -> <<0, -10>>
      [] pose = "folded" -> <<0, -10>>
      [] pose = "threshold" -> <<-8, -13>>
      [] pose = "point" -> <<0, -10>>

PoseTip(pose) ==
    CASE pose = "extended" -> <<0, -20>>
      [] pose = "folded" -> <<5, -3>>
      [] pose = "threshold" -> <<0, -7>>
      [] pose = "point" -> <<0, -10>>

\* The landmarks of a hand whose fingers are in the given poses.
Hand(poses) ==
    [wrist |-> Wrist,
     base |-> [f \in FingerSet |-> PoseBase(poses[f])],
     tip |-> [f \in FingerSet |-> PoseTip(poses[f])]]

\* The five fingers extended or folded, and the hands with one finger in
\* another pose and the others all folded or all extended.
HandPoses ==
    [FingerSet -> {"extended", "folded"}]
        \cup {[f \in FingerSet |-> IF f = g THEN pose ELSE rest] :
                 g \in FingerSet, pose \in Poses, rest \in {"extended", "folded"}}

OneHand == {<<Hand(poses)>> : poses \in HandPoses}

\* A fist with an open palm, an open palm with a raised thumb.
TwoHands ==
    {<<Hand([f \in FingerSet |-> "folded"]), Hand([f \in FingerSet |-> "extended"])>>,
     <<Hand([f \in FingerSet |-> "extended"]),
       Hand([f \in FingerSet |-> IF f = "thumb" THEN "extended" ELSE "folded"])>>}

Seen(multiHandLandmarks) == [kind |-> "hands", multiHandLandmarks |-> multiHandLandmarks]

Failures == {[kind |-> "throws"], [kind |-> "undefined"]}

Detections == Failures \cup {Seen(m) : m \in {<<>>} \cup OneHand \cup TwoHands}

InitOutcomes == {"unavailable", "throws", "ok"}

NextClassify ==
    \/ \E outcome \in InitOutcomes : Initialize(outcome)
    \/ DisposeGesture
    \/ \E detection \in Detections : ProcessFrame(detection)
    \/ Advance(FALSE, GapCap)

SpecClassify == Init /\ [][NextClassify]_vars

(***************************************************************************)
(* SpecThrottle: frames arrive 99 ms and 100 ms after one another and      *)
(* later, at a service that is initialized (or not) and disposed of.       *)
(***************************************************************************)
ThrottleSteps == {ProcessInterval - 1, ProcessInterval}

ThrottleDetections ==
    Failures \cup {Seen(<<>>), Seen(<<Hand([f \in FingerSet |-> "folded"])>>)}

NextThrottle ==
    \/ \E outcome \in InitOutcomes : Initialize(outcome)
    \/ DisposeGesture
    \/ \E detection \in ThrottleDetections : ProcessFrame(detection)
    \/ \E ms \in ThrottleSteps : Advance(FALSE, ms)

SpecThrottle == Init /\ [][NextThrottle]_vars

(***************************************************************************)
(* SpecInput: the App mounts, the match is started, and camera frames come *)
(* 99 ms and 100 ms apart: no hand, a fist (0.95), a raised thumb (0.9),   *)
(* an open palm of three fingers (0.3), or a detector that throws.         *)
(***************************************************************************)
InputDetections ==
    {[kind |-> "throws"], Seen(<<>>),
     Seen(<<Hand([f \in FingerSet |-> "folded"])>>),
     Seen(<<Hand([f \in FingerSet |-> IF f = "thumb" THEN "extended" ELSE "folded"])>>),
     Seen(<<Hand([f \in FingerSet |->
                    IF f \in {"thumb", "index", "middle"} THEN "extended" ELSE "folded"])>>)}

NextInput ==
    \/ \E outcome \in InitOutcomes : OnMounted(outcome)
    \/ StartMatch
    \/ \E detection \in InputDetections : HandleFrame(detection)
    \/ \E ms \in ThrottleSteps : Advance(FALSE, ms)

SpecInput == Init /\ [][NextInput]_vars

(***************************************************************************)
(* SpecBus: clients register and remove named callbacks for MatchStart and *)
(* MatchEnd, one of which unsubscribes itself when called, and the match   *)
(* is started, reset and disposed.                                          *)
(***************************************************************************)
BusEvents == {"match_start", "match_end"}

NextBus ==
    \/ \E event \in BusEvents, callback \in Callbacks : OnCallback(event, callback)
    \/ \E event \in BusEvents, callback \in Callbacks : Off(event, callback)
    \/ StartMatch
    \/ ResetMatch(FALSE)
    \/ Dispose

SpecBus == Init /\ [][NextBus]_vars

(***************************************************************************)
(* SpecAttrition: both players jab at an unguarded opponent, to the        *)
(* knockout: player 0 with the weakest and the strongest jab (6 and 9),    *)
(* player 1 with the weakest, which takes seventeen to knock out.          *)
(***************************************************************************)
AttritionDraws == [i \in 0..1 |-> IF i = 0 THEN {0, DrawScale} ELSE {0}]

NextAttrition ==
    \/ StartMatch
    \/ \E i \in 0..1 : \E dDamage \in AttritionDraws[i] :
           SetPlayerAction(FALSE, i, "jab", 0, dDamage)
    \/ Advance(FALSE, ActionCooldown)

SpecAttrition == Init /\ [][NextAttrition]_vars

(***************************************************************************)
(* SpecArena: the engine and the BoxingArena component are given the same  *)
(* starts, pauses, resumes, resets and seconds; nobody attacks and the AI  *)
(* interval does not come due.                                             *)
(***************************************************************************)
NextArena ==
    \/ BothStartMatch
    \/ BothPauseMatch
    \/ BothResetMatch
    \/ BothTick

SpecArena == Init /\ [][NextArena]_vars

(* ------------------------------- claims ------------------------------- *)

LastEvent == emitted[Len(emitted)]

\* The winner the scores name: the higher score, or the draw sentinel.
WinnerByScore ==
    /\ players[0].score > players[1].score => winner = PlayerName(0)
    /\ players[1].score > players[0].score => winner = PlayerName(1)
    /\ players[0].score = players[1].score => winner = DrawName
    /\ DrawName \notin {PlayerName(0), PlayerName(1)}

\* The last operation emitted MatchEnd{winner} last, with the winner of the state.
MatchEndEmitted ==
    /\ Len(emitted) > 0
    /\ LastEvent.kind = "match_end"
    /\ LastEvent.winner = winner
    /\ ~LastEvent.reset

\* C1: in every reachable state each fighter's health is an integer in [0,100].
C1_HealthInRange == \A i \in 0..1 : players[i].health \in 0..MaxHealth

\* A hit of 23 on a defender with less health left: the clamp at 0 has acted.
C1_Witness ==
    /\ lastOp.op \in {"setPlayerAction", "aiInterval"}
    /\ \E k \in 1..Len(emitted) :
          /\ emitted[k].kind = "player_damaged"
          /\ emitted[k].newHealth = 0
          /\ MaxHealth % emitted[k].damage # 0

\* The last operation is the round-clock tick that ended the match.
EndedByTimeout == lastOp.op = "roundTimer" /\ ~isMatchRunning

\* C2: when the clock of the last round reaches 0, the winner is the fighter with
\* the higher score, or the draw sentinel, and MatchEnd carries that winner.
C2_TimeoutWinnerByScore ==
    EndedByTimeout =>
        /\ currentRound = TotalRounds
        /\ timeRemaining = 0
        /\ WinnerByScore
        /\ MatchEndEmitted

\* The last round ran out with both fighters having scored, player 1 more.
C2_Witness ==
    /\ EndedByTimeout
    /\ players[0].score > 0
    /\ players[1].score > players[0].score
    /\ winner = PlayerName(1)

\* The last operation landed a hit that brought the defender's health to 0.
KnockedOut ==
    /\ lastOp.op \in {"setPlayerAction", "aiInterval"}
    /\ \E k \in 1..Len(emitted) :
          emitted[k].kind = "player_damaged" /\ emitted[k].newHealth = 0

\* C3: a hit that brings the defender to 0 ends the match in the same call: not
\* running, both timers stopped, MatchEnd{winner} emitted, winner by the scores.
C3_KnockoutEndsMatchByScore ==
    KnockedOut =>
        /\ ~isMatchRunning
        /\ ~timerInterval
        /\ ~aiActionInterval
        /\ MatchEndEmitted
        /\ WinnerByScore

\* A knockout in the first round with time left, won by the fighter knocked out.
C3_Witness ==
    /\ KnockedOut
    /\ currentRound < TotalRounds
    /\ timeRemaining > 0
    /\ \E i \in 0..1 : players[i].health = 0 /\ winner = PlayerName(i)

\* The step is a call of setPlayerAction on player i by the input driver.
IsCallOn(i) == lastOp'.op = "setPlayerAction" /\ lastOp'.idx = i

\* The code's two guards on the state before the call: lines 259 and 265.
Rejected(i) == i \notin 0..1 \/ players[i].sinceLastAction < ActionCooldown

\* C4 as stated: after the second of any two calls on a fighter made less than
\* 200 ms apart, the fighter's action is the symbol of the first call.
C4_AnyTwoCallsKeepFirst ==
    [][\A i \in 0..1 :
          (IsCallOn(i) /\ recentCall[i].sym # "none")
              => players'[i].action = recentCall[i].sym]_vars

\* C4 amended: when the first of the two calls was accepted and no reset came
\* between them, the fighter's action after the second call, made less than
\* 200 ms after the first, is the symbol of the first call.
C4_AcceptedCallKeepsSymbol ==
    [][\A i \in 0..1 :
          (IsCallOn(i) /\ recentCall[i].sym # "none"
             /\ recentCall[i].accepted /\ ~recentCall[i].reset)
              => players'[i].action = recentCall[i].sym]_vars

\* A call with another symbol, refused 1..199 ms after an accepted call.
C4_Witness ==
    /\ lastOp.op = "setPlayerAction"
    /\ lastOp.idx = 0
    /\ ~lastOp.accepted
    /\ players[0].action \notin {"idle", lastOp.sym}
    /\ players[0].sinceLastAction \in 1..(ActionCooldown - 1)

\* C5: a rejected setPlayerAction call (index outside {0,1}, or less than 200 ms
\* after the fighter's last accepted action) emits no event and leaves the whole
\* match state, the timers and the pending timeouts as they were.
C5_RejectedCallChangesNothing ==
    [][(lastOp'.op = "setPlayerAction" /\ Rejected(lastOp'.idx))
          => /\ UNCHANGED <<gameState, timerInterval, aiActionInterval, pendingReverts>>
             /\ emitted' = <<>>]_vars

\* An attack refused by the cooldown in a running match.
C5_Witness ==
    /\ lastOp.op = "setPlayerAction"
    /\ ~lastOp.accepted
    /\ lastOp.idx \in 0..1
    /\ isAttackAction(lastOp.sym)
    /\ isMatchRunning /\ ~isPaused
    /\ players[lastOp.idx].sinceLastAction \in 1..(ActionCooldown - 1)
    /\ players[lastOp.idx].action # lastOp.sym

\* C6: an accepted setPlayerAction(i, s) sets action, isBlocking and the time of
\* the last action of fighter i; it resolves a hit iff s is an attack and the
\* match runs unpaused; otherwise it changes nothing else and emits nothing.
C6_AcceptedCallEffect ==
    [][\A i \in 0..1 :
          (IsCallOn(i) /\ ~Rejected(i)) =>
              LET s == lastOp'.sym
                  active == isMatchRunning /\ ~isPaused
                  resolved == /\ Len(emitted') > 0
                              /\ emitted'[1].kind \in {"block_success", "hit_landed"}
              IN  /\ players'[i].action = s
                  /\ players'[i].isBlocking = (s = "block")
                  /\ players'[i].sinceLastAction = 0
                  /\ resolved <=> (s \in {"jab", "cross", "hook", "uppercut"} /\ active)
                  /\ ~active =>
                        /\ players' = [players EXCEPT ![i].action = s,
                                                      ![i].isBlocking = (s = "block"),
                                                      ![i].sinceLastAction = 0]
                        /\ UNCHANGED <<currentRound, timeRemaining, isMatchRunning,
                                       isPaused, winner, timerInterval,
                                       aiActionInterval, pendingReverts>>
                        /\ emitted' = <<>>]_vars

\* An attack accepted while the match is paused.
C6_Witness ==
    /\ lastOp.op = "setPlayerAction"
    /\ lastOp.accepted
    /\ isAttackAction(lastOp.sym)
    /\ isMatchRunning /\ isPaused
    /\ players[lastOp.idx].action = lastOp.sym
    /\ emitted = <<>>

\* C7 as stated: right after start() on an engine that was not running, both
\* fighters have health 100, score 0, comboCount 0, action idle, isBlocking
\* false; round 1, full clock, running, not paused, no winner; one MatchStart.
C7_StartResetsFighters ==
    (lastOp.op = "startMatch" /\ lastOp.accepted) =>
        /\ \A i \in 0..1 :
              /\ players[i].health = MaxHealth
              /\ players[i].score = 0
              /\ players[i].comboCount = 0
              /\ players[i].action = "idle"
              /\ ~players[i].isBlocking
        /\ currentRound = 1
        /\ timeRemaining = RoundTime
        /\ isMatchRunning /\ ~isPaused
        /\ winner = Null
        /\ emitted = <<[kind |-> "match_start"]>>

\* C8: start() on a running match, paused or not, changes nothing: the match
\* state and both timers stay as they were and no event is emitted.
C8_StartWhileRunningIsNoOp ==
    [][(lastOp'.op = "startMatch" /\ isMatchRunning)
          => /\ UNCHANGED <<gameState, timerInterval, aiActionInterval, pendingReverts>>
             /\ emitted' = <<>>]_vars

\* start() called on a paused match, in the middle of a round.
C8_Witness ==
    /\ lastOp.op = "startMatch"
    /\ ~lastOp.accepted
    /\ isMatchRunning /\ isPaused
    /\ ~timerInterval /\ ~aiActionInterval
    /\ timeRemaining < RoundTime

\* C9: pause() on a running match toggles isPaused and keeps the clock; while the
\* match is paused no round tick runs and timeRemaining and currentRound stay;
\* the ticks run in a round and the seconds left always add up to roundTime.
C9_PauseKeepsClock ==
    [][/\ (lastOp'.op = "pauseMatch" /\ isMatchRunning)
            => /\ isPaused' = ~isPaused
               /\ timeRemaining' = timeRemaining
               /\ currentRound' = currentRound
               /\ timerInterval' = ~isPaused'
       /\ isPaused => lastOp'.op # "roundTimer"
       /\ (isPaused /\ isPaused')
            => (timeRemaining' = timeRemaining /\ currentRound' = currentRound)
       /\ isMatchRunning' => roundTicks' + timeRemaining' = RoundTime]_vars

\* A match resumed in the middle of a round.
C9_Witness ==
    /\ lastOp.op = "pauseMatch"
    /\ isMatchRunning /\ ~isPaused
    /\ timerInterval
    /\ roundTicks > 0
    /\ timeRemaining > 0

\* The default state of the engine, the time of the last action included.
DefaultState ==
    /\ \A i \in 0..1 :
          players[i] = [health |-> MaxHealth, score |-> 0, action |-> "idle",
                        isBlocking |-> FALSE, comboCount |-> 0, sinceLastAction |-> 0]
    /\ currentRound = 1
    /\ timeRemaining = RoundTime
    /\ ~isMatchRunning
    /\ ~isPaused
    /\ winner = Null

\* C10: reset() stops the round clock and the AI interval, leaves the default
\* match state and emits one MatchEnd{winner: null, reset: true}; a start()
\* that follows begins a fresh match.
C10_ResetRestoresDefaults ==
    [][/\ lastOp'.op = "resetMatch"
            => /\ ~timerInterval' /\ ~aiActionInterval'
               /\ DefaultState'
               /\ emitted' = <<[kind |-> "match_end", winner |-> Null, reset |-> TRUE]>>
       /\ (lastOp.op = "resetMatch" /\ lastOp'.op = "startMatch")
            => /\ isMatchRunning' /\ ~isPaused'
               /\ timerInterval' /\ aiActionInterval'
               /\ currentRound' = 1 /\ timeRemaining' = RoundTime /\ winner' = Null
               /\ \A i \in 0..1 :
                     /\ players'[i].health = MaxHealth
                     /\ players'[i].score = 0
                     /\ players'[i].comboCount = 0
                     /\ players'[i].action = "idle"
                     /\ ~players'[i].isBlocking
               /\ emitted' = <<[kind |-> "match_start"]>>]_vars

\* reset() on an engine whose AI has acted: a match was under way or had ended.
C10_Witness ==
    /\ lastOp.op = "resetMatch"
    /\ pendingReverts > 0
    /\ DefaultState

\* The events of the last operation that reached a registered callback.
Delivered == SelectSeq(emitted, LAMBDA ev : ev.kind \in eventListeners)

\* The step is the run of a callback the engine scheduled.
IsCallbackStep == lastOp'.op \in {"roundTimer", "aiInterval", "aiRevert"}

\* C11 as stated: once dispose() has returned no scheduled callback of the
\* engine runs or changes the match state and no event reaches a subscriber;
\* and when the round clock and the AI loop are stopped, nothing they scheduled
\* is left pending.
C11_NothingRunsAfterStop ==
    [][/\ (disposed /\ IsCallbackStep)
            => (UNCHANGED gameState /\ Delivered' = <<>>)
       /\ disposed => ~IsCallbackStep
       /\ (~timerInterval' /\ ~aiActionInterval') => pendingReverts' = 0]_vars

\* In the events of one operation, RoundEnd{r} is directly followed by
\* RoundStart{r+1} or by MatchEnd{winner}.
RoundEndFollowed(events) ==
    \A k \in 1..Len(events) :
        events[k].kind = "round_end" =>
            /\ k < Len(events)
            /\ \/ events[k + 1] = [kind |-> "round_start", round |-> events[k].round + 1]
               \/ /\ events[k + 1].kind = "match_end"
                  /\ ~events[k + 1].reset
                  /\ events[k + 1].winner # Null

\* C12: a round-clock tick runs only in a running, unpaused match and takes one
\* second off the clock; at 0 it emits RoundEnd{currentRound} and then either
\* begins the next round (round + 1, full clock, RoundStart{new round}, clock
\* still scheduled) or, in the last round, ends the match; RoundEnd{r} is
\* always directly followed by RoundStart{r+1} or MatchEnd{winner}.
C12_RoundClockTick ==
    [][/\ lastOp'.op = "roundTimer" =>
            /\ isMatchRunning /\ ~isPaused
            /\ IF timeRemaining > 1
               THEN /\ timeRemaining' = timeRemaining - 1
                    /\ currentRound' = currentRound
                    /\ isMatchRunning' /\ timerInterval'
                    /\ emitted' = <<>>
               ELSE IF currentRound < TotalRounds
               THEN /\ timeRemaining = 1
                    /\ currentRound' = currentRound + 1
                    /\ timeRemaining' = RoundTime
                    /\ isMatchRunning' /\ timerInterval'
                    /\ emitted' = <<[kind |-> "round_end", round |-> currentRound],
                                    [kind |-> "round_start", round |-> currentRound + 1]>>
               ELSE /\ timeRemaining = 1
                    /\ timeRemaining' = 0
                    /\ currentRound' = currentRound
                    /\ ~isMatchRunning' /\ ~timerInterval'
                    /\ emitted' = <<[kind |-> "round_end", round |-> currentRound],
                                    [kind |-> "match_end", winner |-> winner',
                                     reset |-> FALSE]>>
       /\ RoundEndFollowed(emitted')]_vars

\* The tick that ends round 1 of a match in which both fighters have scored.
C12_Witness ==
    /\ lastOp.op = "roundTimer"
    /\ currentRound = 2
    /\ timeRemaining = RoundTime
    /\ timerInterval
    /\ emitted = <<[kind |-> "round_end", round |-> 1],
                   [kind |-> "round_start", round |-> 2]>>
    /\ \A i \in 0..1 : players[i].score > 0

\* The number of the round tick at which an undisturbed match ends.
LastTick == TotalRounds * RoundTime

\* C13: in a match without an accepted attack and without pause, reset or
\* dispose, the match runs until the (totalRounds * roundTime)-th round tick
\* and ends at that tick, not running, with MatchEnd{winner = draw}; with a
\* fairly ticking clock every running match eventually ends.
C13_EndsAtLastTick ==
    /\ [](/\ isMatchRunning => matchTicks < LastTick
          /\ (lastOp.op = "roundTimer" /\ matchTicks = LastTick) =>
                /\ ~isMatchRunning
                /\ winner = DrawName
                /\ emitted[Len(emitted)] =
                       [kind |-> "match_end", winner |-> DrawName, reset |-> FALSE]
          /\ (HasEvent(emitted, "match_end") \/ winner # Null) =>
                (matchTicks = LastTick /\ ~isMatchRunning))
    /\ (isMatchRunning ~> ~isMatchRunning)

\* The tick that ends an undisturbed match.
C13_Witness ==
    /\ lastOp.op = "roundTimer"
    /\ matchTicks = LastTick
    /\ ~isMatchRunning
    /\ winner = DrawName
    /\ \A i \in 0..1 : players[i].score = 0 /\ players[i].health = MaxHealth

\* The step resolved an attack of fighter i: checkHit has run.
ResolvedAttackBy(i) ==
    /\ lastOp'.op = "setPlayerAction"
    /\ lastOp'.idx = i
    /\ Len(emitted') > 0
    /\ emitted'[1].kind \in {"block_success", "hit_landed"}

\* The block-success probability the attack types are said to have, in thousandths.
StatedBlockChance(attackType) ==
    CASE attackType = "jab" -> 600
      [] attackType = "cross" -> 500
      [] attackType = "hook" -> 400
      [] attackType = "uppercut" -> 300

\* C14: when an attack is resolved against a blocking defender and the draw is
\* below the block chance of the attack type (jab 0.6, cross 0.5, hook 0.4,
\* uppercut 0.3), BlockSuccess{blocker = defender, attackType} is the only
\* event and the defender's health and the attacker's score and comboCount
\* stay as they were.
C14_BlockAbsorbsAttack ==
    [][\A i \in 0..1 :
          (/\ ResolvedAttackBy(i)
           /\ players[1 - i].isBlocking
           /\ drawn'.block * 1000 < StatedBlockChance(lastOp'.sym) * DrawScale)
              => /\ emitted' = <<[kind |-> "block_success",
                                  blocker |-> PlayerId(1 - i),
                                  attackType |-> lastOp'.sym]>>
                 /\ players'[1 - i].health = players[1 - i].health
                 /\ players'[i].score = players[i].score
                 /\ players'[i].comboCount = players[i].comboCount]_vars

\* An uppercut at a blocking, already hit defender, absorbed with the draw 0.2.
C14_Witness ==
    /\ lastOp.op = "setPlayerAction"
    /\ lastOp.idx = 0
    /\ lastOp.sym = "uppercut"
    /\ drawn.block = (2 * DrawScale) \div 10
    /\ players[1].isBlocking
    /\ players[1].health < MaxHealth
    /\ players[0].comboCount > 0
    /\ emitted = <<[kind |-> "block_success", blocker |-> PlayerId(1),
                    attackType |-> "uppercut"]>>

\* The base damage the attack types are said to have.
StatedBaseDamage(attackType) ==
    CASE attackType = "jab" -> 8
      [] attackType = "cross" -> 12
      [] attackType = "hook" -> 15
      [] attackType = "uppercut" -> 20

\* The damage the attack types are said to do.
StatedDamageRange(attackType) ==
    CASE attackType = "jab" -> 6..9
      [] attackType = "cross" -> 9..14
      [] attackType = "hook" -> 12..18
      [] attackType = "uppercut" -> 16..24

\* C15: the damage of a landed hit is an integer in [floor(0.8 base),
\* floor(1.2 base)], base jab 8, cross 12, hook 15, uppercut 20 (jab 6..9,
\* cross 9..14, hook 12..18, uppercut 16..24); the defender's health becomes
\* max(0, health - damage); a first jab leaves a health in 91..94.
C15_DamageInRange ==
    [][\A i \in 0..1 :
          (ResolvedAttackBy(i) /\ emitted'[1].kind = "hit_landed") =>
              LET a == lastOp'.sym
                  damage == emitted'[1].damage
                  base == StatedBaseDamage(a)
                  health == players[1 - i].health
              IN  /\ damage \in ((8 * base) \div 10)..((12 * base) \div 10)
                  /\ damage \in StatedDamageRange(a)
                  /\ players'[1 - i].health = IF health > damage THEN health - damage ELSE 0
                  /\ (a = "jab" /\ health = MaxHealth) => players'[1 - i].health \in 91..94]_vars

\* A hook of 18, the top of its range, on a defender with less health left.
C15_Witness ==
    /\ lastOp.op = "setPlayerAction"
    /\ lastOp.sym = "hook"
    /\ Len(emitted) > 1
    /\ emitted[1].kind = "hit_landed"
    /\ emitted[1].damage = 18
    /\ emitted[2].newHealth = 0
    /\ players[1].health = 0
    /\ players[1].health # MaxHealth - 18 * players[0].comboCount

\* The gain said to come with the n-th landed hit: 10, 20, 30, 40, 50, 50, ...
StatedGain(n) == IF n < 5 THEN 10 * n ELSE 50

\* The sum of the first n stated gains.
StatedScore(n) == IF n < 5 THEN 5 * n * (n + 1) ELSE 150 + 50 * (n - 5)

\* C16: a landed hit adds exactly 1 to the attacker's comboCount and then
\* min(comboCount * 10, 50), with the new comboCount, to the attacker's score;
\* the defender's score and comboCount stay; the gains of a fighter in a match
\* are 10, 20, 30, 40, 50, 50, ...
C16_ComboScoring ==
    [][\A i \in 0..1 :
          (ResolvedAttackBy(i) /\ emitted'[1].kind = "hit_landed") =>
              /\ players'[i].comboCount = players[i].comboCount + 1
              /\ players'[i].score = players[i].score + StatedGain(players'[i].comboCount)
              /\ emitted'[1].scoreGain = StatedGain(players'[i].comboCount)
              /\ emitted'[1].comboCount = players'[i].comboCount
              /\ players'[1 - i].score = players[1 - i].score
              /\ players'[1 - i].comboCount = players[1 - i].comboCount
              /\ \A j \in 0..1 : players'[j].score = StatedScore(players'[j].comboCount)]_vars

\* The sixth hit of a fighter, worth 50 like the fifth, on an opponent who has
\* landed hits too.
C16_Witness ==
    /\ lastOp.op = "setPlayerAction"
    /\ Len(emitted) > 0
    /\ emitted[1].kind = "hit_landed"
    /\ emitted[1].comboCount = 6
    /\ emitted[1].scoreGain = 50
    /\ players[lastOp.idx].score = 200
    /\ players[1 - lastOp.idx].comboCount > 1

\* The step is an effective start() or a reset().
IsFreshMatchStep ==
    \/ lastOp'.op = "startMatch" /\ lastOp'.accepted
    \/ lastOp'.op = "resetMatch"

\* C17: a fighter's comboCount never decreases during a match: a blocked
\* attack of the fighter, a hit landed by the opponent and a round change leave
\* it as it was; it goes down, to 0, only by start() or reset().
C17_ComboNeverDecreases ==
    [][\A i \in 0..1 :
          /\ players'[i].comboCount < players[i].comboCount
                => (IsFreshMatchStep /\ players'[i].comboCount = 0)
          /\ ~IsFreshMatchStep
                => /\ players'[i].comboCount \in
                         {players[i].comboCount, players[i].comboCount + 1}
                   /\ HasEvent(emitted', "block_success")
                         => players'[i].comboCount = players[i].comboCount
                   /\ HasEvent(emitted', "round_start")
                         => players'[i].comboCount = players[i].comboCount
                   /\ (HasEvent(emitted', "hit_landed")
                         /\ emitted'[1].attacker = PlayerId(1 - i))
                         => players'[i].comboCount = players[i].comboCount]_vars

\* In round 2, an attack of player 0, who has landed hits and taken hits
\* before, is blocked.
C17_Witness ==
    /\ lastOp.op = "setPlayerAction"
    /\ currentRound = 2
    /\ emitted = <<[kind |-> "block_success", blocker |-> PlayerId(1),
                    attackType |-> lastOp.sym]>>
    /\ players[0].comboCount > 1
    /\ players[1].comboCount > 0
    /\ players[0].health < MaxHealth

\* C18: in every reachable state a paused engine is a running engine: isPaused
\* implies isMatchRunning.
C18_PausedImpliesRunning == isPaused => isMatchRunning

\* A paused match in which an attack, that would have knocked the opponent out
\* had the match not been paused, was just accepted.
C18_Witness ==
    /\ isPaused
    /\ isMatchRunning
    /\ lastOp.op = "setPlayerAction"
    /\ lastOp.accepted
    /\ lastOp.sym = "uppercut"
    /\ players[1].health \in 1..16

\* C19: in every reachable state 1 <= currentRound <= totalRounds and
\* 0 <= timeRemaining <= roundTime; within a match currentRound never goes
\* down and changes only by +1, at a round end.
C19_RoundAndClockInRange ==
    /\ [](currentRound \in 1..TotalRounds /\ timeRemaining \in 0..RoundTime)
    /\ [][currentRound' # currentRound =>
             \/ /\ currentRound' = currentRound + 1
                /\ lastOp'.op = "roundTimer"
                /\ timeRemaining = 1
                /\ HasEvent(emitted', "round_end")
             \/ /\ IsFreshMatchStep
                /\ currentRound' = 1]_vars

\* The last round at its last second, then over: both upper and lower ends.
C19_Witness ==
    /\ currentRound = TotalRounds
    /\ timeRemaining = 0
    /\ roundTicks = RoundTime
    /\ lastOp.op = "roundTimer"

\* winner is null while the match has not ended, and it is assigned only at the
\* end of a match (with one MatchEnd carrying it) and cleared only by start()
\* or reset().
WinnerOnlyAtMatchEnd ==
    /\ [](/\ (isMatchRunning \/ lastOp.op \in {"new", "resetMatch"}) => winner = Null
          /\ matchLog.winnerSets <= 1
          /\ matchLog.matchEnds <= 1
          /\ winner # Null =>
                (matchLog.winnerSets = 1 /\ matchLog.matchEnds = 1 /\ ~isMatchRunning))
    /\ [][/\ winner' # winner =>
               \/ /\ winner = Null
                  /\ isMatchRunning /\ ~isMatchRunning'
                  /\ CountEvents(emitted', "match_end") = 1
                  /\ emitted'[Len(emitted')] =
                         [kind |-> "match_end", winner |-> winner', reset |-> FALSE]
               \/ /\ IsFreshMatchStep
                  /\ winner' = Null
          /\ (HasEvent(emitted', "match_end") /\ lastOp'.op # "resetMatch") =>
               (winner = Null /\ winner' # Null)]_vars

\* C20 as stated: winner is null while the match has not ended, and in every
\* match, from MatchStart to the next start() or reset(), winner is assigned
\* exactly once, at match end, and MatchEnd is emitted exactly once.
C20_WinnerSetOncePerMatch ==
    /\ WinnerOnlyAtMatchEnd
    /\ [][(IsFreshMatchStep /\ matchLog.open) =>
             (matchLog.winnerSets = 1 /\ matchLog.matchEnds = 1)]_vars

\* C20 amended: winner is null while the match has not ended; in a match,
\* winner is assigned at most once, at match end, with exactly one
\* MatchEnd{winner}, and exactly once when the match ends by knockout or by the
\* clock of the last round; a match cut short by reset() assigns no winner.
C20_WinnerSetAtMostOnce ==
    /\ WinnerOnlyAtMatchEnd
    /\ [][/\ (IsFreshMatchStep /\ matchLog.open /\ ~isMatchRunning) =>
               (matchLog.winnerSets = 1 /\ matchLog.matchEnds = 1)
          /\ (IsFreshMatchStep /\ matchLog.open /\ isMatchRunning) =>
               (matchLog.winnerSets = 0 /\ matchLog.matchEnds = 0 /\ winner = Null)]_vars

\* A match was won, and an attack made after its end was accepted and left the
\* winner as it was.
C20_Witness ==
    /\ winner \in {PlayerName(0), PlayerName(1)}
    /\ matchLog = [open |-> TRUE, winnerSets |-> 1, matchEnds |-> 1]
    /\ lastOp.op = "setPlayerAction"
    /\ lastOp.accepted
    /\ isAttackAction(lastOp.sym)
    /\ emitted = <<>>

\* The returned object as its holder reads it, the time of the last action
\* aside (the model keeps its age, which grows with the clock).
SnapshotView ==
    [currentRound |-> snapshot.currentRound, timeRemaining |-> snapshot.timeRemaining,
     isMatchRunning |-> snapshot.isMatchRunning, isPaused |-> snapshot.isPaused,
     winner |-> snapshot.winner,
     players |-> LET ps == IF snapshot.shared THEN players ELSE snapshot.own
                 IN  [i \in 0..1 |-> [health |-> ps[i].health, score |-> ps[i].score,
                                       action |-> ps[i].action,
                                       isBlocking |-> ps[i].isBlocking,
                                       comboCount |-> ps[i].comboCount]]]

\* C21 as stated: no operation of the engine changes a field of an object
\* getGameState() returned before, the fields of its two fighters included, and
\* a write to the returned object does not change the engine's match state.
C21_SnapshotIsolated ==
    [][/\ (snapshot.taken /\ lastOp'.op \in {"startMatch", "resetMatch", "setPlayerAction"})
            => SnapshotView' = SnapshotView
       /\ lastOp'.op = "writeSnapshot" => UNCHANGED gameState]_vars

\* The symbol a 5-bit extension vector is said to classify to.
StatedGesture(fingerStates) ==
    LET ext == {f \in FingerSet : fingerStates[f]}
    IN  IF Cardinality(ext) >= 3 THEN "open_palm"
        ELSE IF ext = {} THEN "fist"
        ELSE IF ext = {"thumb"} THEN "thumb_up"
        ELSE IF ext = {"index"} THEN "index_up"
        ELSE IF ext = {"middle"} THEN "middle_up"
        ELSE IF ext = {"ring"} THEN "ring_up"
        ELSE IF ext = {"pinky"} THEN "pinky_up"
        ELSE IF "index" \in ext THEN "index_up"
        ELSE "idle"

\* The extension vector of a hand, as its geometry gives it: a finger is
\* extended when |tip.y - wrist.y| is more than 0.7 of its length.
ExtensionVector(landmarks) ==
    [f \in FingerSet |->
        LET b == landmarks.base[f]
            tp == landmarks.tip[f]
            len2 == (tp[1] - b[1]) * (tp[1] - b[1]) + (tp[2] - b[2]) * (tp[2] - b[2])
            dw == tp[2] - landmarks.wrist[2]
        IN  100 * dw * dw > 49 * len2]

\* C22: for each of the 32 extension vectors classify gives open_palm for 3 or
\* more extended fingers, fist for none, the symbol of the finger for exactly
\* one, and for exactly two index_up if the index is one of them and idle
\* otherwise; the result is a function of the extension vector.
C22_ClassifyByExtension ==
    \A k \in 1..Len(frame.results) :
        frame.results[k].gesture = StatedGesture(ExtensionVector(frame.results[k].landmarks))

\* Two hands classified in one frame: an open palm and a raised thumb.
C22_Witness ==
    /\ lastOp.op = "processFrame"
    /\ Len(frame.results) = 2
    /\ frame.results[1].gesture = "open_palm"
    /\ frame.results[2].gesture = "thumb_up"

\* C23: the confidence of the symbol classify gives for a hand is 0.9 when
\* exactly that one finger is extended, 0.95 for fist, 0.85 for open_palm with
\* 4 or 5 extended, a value in [0.2, 0.3] for open_palm with exactly 3 and for
\* index_up chosen from two fingers, 0.1 for idle; it is always in [0.1, 1.0].
C23_ConfidenceByPattern ==
    \A k \in 1..Len(frame.results) :
        LET r == frame.results[k]
            ext == {f \in FingerSet : ExtensionVector(r.landmarks)[f]}
            n == Cardinality(ext)
        IN  /\ r.confidence \in 100..1000
            /\ (n = 1 /\ r.gesture \in {"thumb_up", "index_up", "middle_up",
                                          "ring_up", "pinky_up"}) => r.confidence = 900
            /\ r.gesture = "fist" => (n = 0 /\ r.confidence = 950)
            /\ (r.gesture = "open_palm" /\ n >= 4) => r.confidence = 850
            /\ (r.gesture = "open_palm" /\ n < 4) => (n = 3 /\ r.confidence \in 200..300)
            /\ (r.gesture = "index_up" /\ n # 1) => (n = 2 /\ r.confidence \in 200..300)
            /\ r.gesture = "idle" => r.confidence = 100
            /\ r.confidence \in {900, 950, 850, 100} \cup 200..300

\* An open palm of exactly three fingers: the mismatch value.
C23_Witness ==
    /\ lastOp.op = "processFrame"
    /\ Len(frame.results) = 1
    /\ frame.results[1].gesture = "open_palm"
    /\ frame.results[1].confidence = 300
    /\ Cardinality({f \in FingerSet : ExtensionVector(frame.results[1].landmarks)[f]}) = 3

\* C24: a frame is handed to the detector only 100 ms or more after the last
\* one that was; a call that comes less than 100 ms after it returns the empty
\* list and leaves the service as it was, the timestamp aside; a call that comes
\* exactly 100 ms after it, to a ready service, is accepted.
C24_OneFramePerInterval ==
    [][lastOp'.op = "processFrame" =>
          /\ frame'.sent => frame'.gap >= ProcessInterval
          /\ frame'.gap < ProcessInterval =>
                /\ frame'.results = <<>>
                /\ ~frame'.sent /\ ~frame'.threw
                /\ UNCHANGED <<hands, isInitialized>>
          /\ (frame'.gap = ProcessInterval /\ frame'.ready) => frame'.sent]_vars

\* A hand classified in a frame that came exactly 100 ms after the last one.
C24_Witness ==
    /\ lastOp.op = "processFrame"
    /\ frame.gap = ProcessInterval
    /\ frame.sent
    /\ Len(frame.results) = 1

\* C25: no call of processFrame lets an error out; a service that is not
\* initialized (module unavailable, construction failed, disposed of) returns
\* the empty list from every call and stays uninitialized whatever it is
\* called with; a detector that throws on an accepted frame gives the empty
\* list.
C25_ProcessFrameNeverThrows ==
    [][lastOp'.op = "processFrame" =>
          /\ ~frame'.threw
          /\ ~frame'.ready =>
                /\ frame'.results = <<>>
                /\ ~frame'.sent
                /\ ~isInitialized' \/ ~hands'
          /\ (frame'.sent /\ frame'.detection.kind \in {"throws", "undefined"})
                => frame'.results = <<>>]_vars

\* The detector threw on an accepted frame; the call returned the empty list.
C25_Witness ==
    /\ lastOp.op = "processFrame"
    /\ frame.ready
    /\ frame.sent
    /\ frame.detection.kind = "throws"
    /\ frame.results = <<>>
    /\ ~frame.threw

\* C26 as stated: while the match is not running or is paused, no call that
\* comes from the AI (its decision tick, its deferred revert to idle) changes
\* fighter 1's action, isBlocking or time of last action, or anything else in
\* the match state.
C26_AIOnlyWhileActive ==
    [][((~isMatchRunning \/ isPaused) /\ lastOp'.op \in {"aiInterval", "aiRevert"})
          => UNCHANGED gameState]_vars

\* C27 as stated: a decision tick of the AI issues one setPlayerAction(1, a)
\* with a among jab, cross, hook, uppercut, block; the forced block (the branch
\* that schedules nothing) is taken only when fighter 0's action is neither
\* idle nor block; the deferred revert to idle is scheduled only after an
\* attack, never after block.
C27_AIDecisionTick ==
    [][lastOp'.op = "aiInterval" =>
          /\ lastOp'.sym \in {"jab", "cross", "hook", "uppercut", "block"}
          /\ lastOp'.idx = 1
          /\ pendingReverts' \in {pendingReverts, pendingReverts + 1}
          /\ pendingReverts' = pendingReverts =>
                (lastOp'.sym = "block" /\ players[0].action \notin {"idle", "block"})
          /\ pendingReverts' > pendingReverts => isAttackAction(lastOp'.sym)]_vars

\* C28 as stated: every call of setPlayerAction the gesture input makes carries
\* the gesture of a classifier result of that frame with a confidence above
\* 0.5; a frame without such a result (no hand, a frame inside the 100 ms, a
\* result of low confidence) forwards no action to the engine.
C28_ForwardsOnlyConfidentGestures ==
    [][(lastOp'.op = "handleFrame" /\ lastOp'.sym # NoIntent) =>
          \E k \in 1..Len(frame'.results) :
              /\ frame'.results[k].gesture = lastOp'.sym
              /\ frame'.results[k].confidence > ForwardThreshold]_vars

\* The lifecycle state of the engine, read from isMatchRunning, isPaused and
\* winner.
Phase(running, paused, w) ==
    IF running THEN (IF paused THEN "Paused" ELSE "Running")
    ELSE IF w # Null THEN "Ended" ELSE "Idle"

\* The lifecycle transitions the statement lists.
StatedLifecycle ==
    {<<"Idle", "Running">>, <<"Running", "Paused">>, <<"Paused", "Running">>,
     <<"Running", "Running">>, <<"Running", "Ended">>}

\* C29 as stated: the engine starts Idle; every step other than reset() that
\* changes the lifecycle state takes one of Idle -> Running, Running <-> Paused,
\* Running -> Ended; and Ended is terminal: once a match has ended with a
\* winner, no start(), pause(), setPlayerAction or timer callback makes
\* isMatchRunning true again.
C29_EndedIsTerminal ==
    /\ [](lastOp.op = "new" => Phase(isMatchRunning, isPaused, winner) = "Idle")
    /\ [][LET before == Phase(isMatchRunning, isPaused, winner)
              after == Phase(isMatchRunning', isPaused', winner')
          IN  /\ (lastOp'.op # "resetMatch" /\ after # before)
                    => <<before, after>> \in StatedLifecycle
              /\ (before = "Ended" /\ lastOp'.op # "resetMatch")
                    => ~isMatchRunning']_vars

\* The number of registrations of callback in list.
Registrations(list, callback) ==
    Cardinality({k \in 1..Len(list) : list[k] = callback})

\* The lists that are list without one registration of callback.
WithoutOne(list, callback) ==
    {splice(list, k) : k \in {j \in 1..Len(list) : list[j] = callback}}

\* Every emit of the last operation called the callbacks registered for its
\* event at emission time, once per registration and in registration order.
DeliveredToAll ==
    \A k \in 1..Len(delivery) :
        delivery[k].called = delivery[k].atEmission[delivery[k].kind]

\* The step is off(event, callback) and removes one registration of callback
\* for event, if there is one, and nothing else.
OffRemovesOne ==
    lastOp'.op = "off" =>
        LET event == lastOp'.sym
            callback == CallbackNames[lastOp'.idx]
        IN  /\ \A other \in GameEvents \ {event} : listeners'[other] = listeners[other]
            /\ IF Registrations(listeners[event], callback) > 0
               THEN listeners'[event] \in WithoutOne(listeners[event], callback)
               ELSE listeners'[event] = listeners[event]

\* The calls of off made by the callbacks during a delivery removed one
\* registration of the calling callback each and nothing else.
OffInsideRemovesOne ==
    \A k \in 1..Len(delivery) :
        LET d == delivery[k]
            IsObserver(callback) == callback \notin SelfRemoving
        IN  /\ \A other \in GameEvents \ {d.kind} : d.after[other] = d.atEmission[other]
            /\ SelectSeq(d.after[d.kind], IsObserver)
                   = SelectSeq(d.atEmission[d.kind], IsObserver)
            /\ \A callback \in SelfRemoving :
                   Registrations(d.after[d.kind], callback)
                      = Registrations(d.atEmission[d.kind], callback)
                           - Registrations(d.called, callback)

\* C30 as stated: an emitted event is delivered to every callback registered
\* for its kind at emission time, once per registration and in registration
\* order, and to no callback of another kind; off(kind, cb) removes one
\* registration of cb for that kind and leaves all others untouched, also when
\* it is called from inside a callback during delivery.
C30_DeliveryAndOff ==
    /\ [](DeliveredToAll /\ OffInsideRemovesOne)
    /\ [][OffRemovesOne]_vars

\* The kinds of the events in events, in order.
Kinds(events) == [k \in 1..Len(events) |-> events[k].kind]

\* The step lands a hit on fighter d: d's health goes down.
HitLandsOn(d) == players'[d].health < players[d].health

\* C31: an operation that lands a hit emits HitLanded, PlayerDamaged and
\* ScoreUpdate, in this order and nothing before or between them, with the
\* values of the state it leaves: HitLanded carries the attacker's new
\* comboCount and the gain just added, PlayerDamaged the defender's health,
\* ScoreUpdate the attacker's score; on a knockout MatchEnd follows and is the
\* last event, otherwise nothing follows; no RoundEnd is emitted.
C31_HitEventsInOrder ==
    [][\A d \in 0..1 :
          HitLandsOn(d) =>
              LET a == 1 - d
              IN  /\ Kinds(emitted') =
                        <<"hit_landed", "player_damaged", "score_update">>
                           \o (IF players'[d].health = 0 THEN <<"match_end">> ELSE <<>>)
                  /\ emitted'[1].attacker = PlayerId(a)
                  /\ emitted'[1].defender = PlayerId(d)
                  /\ emitted'[1].comboCount = players'[a].comboCount
                  /\ emitted'[1].scoreGain = players'[a].score - players[a].score
                  /\ emitted'[2].player = PlayerId(d)
                  /\ emitted'[2].newHealth = players'[d].health
                  /\ emitted'[3].player = PlayerId(a)
                  /\ emitted'[3].newScore = players'[a].score]_vars

\* A knockout: the four events of a hit that ends the match.
C31_Witness ==
    /\ lastOp.op = "setPlayerAction"
    /\ Kinds(emitted) = <<"hit_landed", "player_damaged", "score_update", "match_end">>
    /\ players[1 - lastOp.idx].health = 0
    /\ emitted[1].comboCount >= 5

\* C32: in every state and for each fighter, isBlocking is true iff the action
\* is block; a fighter whose attack is accepted is not blocking after the call;
\* start(), reset(), pause and the end of the match keep the equivalence.
C32_BlockingIffBlock ==
    /\ [](\A i \in 0..1 : players[i].isBlocking <=> players[i].action = "block")
    /\ [][(lastOp'.op = "setPlayerAction" /\ lastOp'.accepted
              /\ isAttackAction(lastOp'.sym))
              => ~players'[lastOp'.idx].isBlocking]_vars

\* A guard that was up before start() is still up, with action block, after it.
C32_Witness ==
    /\ lastOp.op = "startMatch" /\ lastOp.accepted
    /\ players[0].isBlocking
    /\ winner = Null /\ matchTicks = 0

\* C33: in every state each fighter's score is the sum of min(10 k, 50) for
\* k = 1..comboCount (0, 10, 30, 60, 100, 150, 200, ...), and comboCount is the
\* number of hits the fighter landed in the current match; so the higher score
\* is the fighter who landed more hits, and equal scores are equal hit counts.
C33_ScoreFromComboCount ==
    /\ \A i \in 0..1 :
          /\ players[i].score = StatedScore(players[i].comboCount)
          /\ players[i].comboCount = hitsLanded[i]
    /\ (players[0].score > players[1].score) <=> (hitsLanded[0] > hitsLanded[1])
    /\ (players[0].score = players[1].score) <=> (hitsLanded[0] = hitsLanded[1])

\* Six hits against two, in the last round: 200 points against 30.
C33_Witness ==
    /\ hitsLanded[0] = 6 /\ hitsLanded[1] = 2
    /\ players[0].score = 200 /\ players[1].score = 30
    /\ currentRound = TotalRounds

\* C34: in every state, for an attacker a and the other fighter d whose health
\* is above 0, health[d] <= 100 - 6 * comboCount[a]: every landed hit takes at
\* least 6 health.  So comboCount is at most 17 and score at most 750, for
\* both fighters.
C34_SixHealthPerHit ==
    \A a \in 0..1 :
        /\ players[1 - a].health > 0
              => players[1 - a].health <= MaxHealth - 6 * players[a].comboCount
        /\ players[a].comboCount <= 17
        /\ players[a].score <= 750

\* The seventeenth jab of 6 knocks out: comboCount 17 and score 750.
C34_Witness ==
    /\ players[1].comboCount = 17
    /\ players[1].score = 750
    /\ players[0].health = 0
    /\ lastOp.op = "setPlayerAction" /\ lastOp.idx = 1

\* A hit that lands on d takes at most most health, and if it knocks d out
\* the fighter who landed it has landed five hits or more and has 150 points
\* or more.
KnockoutNeedsFiveHits(most) ==
    \A d \in 0..1 :
        HitLandsOn(d) =>
            /\ players[d].health - players'[d].health <= most
            /\ emitted'[1].damage <= most
            /\ players'[d].health = 0 =>
                  /\ players'[1 - d].comboCount >= 5
                  /\ players'[1 - d].score >= 150

\* C35 as stated: a single hit removes at most 23 health, so a knockout comes
\* only with a fighter's fifth or later landed hit of the match: at a knockout
\* the fighter who landed the last hit has comboCount >= 5 and score >= 150.
C35_KnockoutOnFifthHitAtMost23 == [][KnockoutNeedsFiveHits(23)]_vars

\* C35 amended: a single hit removes at most 24 health, and a knockout comes
\* only with a fighter's fifth or later landed hit of the match: at a knockout
\* the fighter who landed the last hit has comboCount >= 5 and score >= 150.
C35_KnockoutOnFifthHit == [][KnockoutNeedsFiveHits(24)]_vars

\* Four uppercuts of 24 leave 4 health; the fifth knocks out.
C35_Witness ==
    /\ lastOp.op = "setPlayerAction"
    /\ HasEvent(emitted, "match_end")
    /\ emitted[1].kind = "hit_landed" /\ emitted[1].damage = 24
    /\ players[1 - lastOp.idx].health = 0
    /\ players[lastOp.idx].comboCount = 5
    /\ players[lastOp.idx].score = 150

\* C36: in every state between operations, a running match shows both
\* fighters with a health above 0 and a clock of 1 second or more.
C36_RunningMeansAliveAndClocked ==
    isMatchRunning =>
        /\ \A i \in 0..1 : players[i].health > 0
        /\ timeRemaining >= 1

\* The last second of the last round of a running match, after four hits of 23.
C36_Witness ==
    /\ isMatchRunning
    /\ currentRound = TotalRounds
    /\ timeRemaining = 1
    /\ \E i \in 0..1 : players[i].health = MaxHealth - 4 * 23

\* C37: as long as dispose() was not called, at most one round-clock interval
\* and at most one AI interval are scheduled, and each is scheduled iff the
\* match is running and not paused.
C37_OneTimerEachWhileActive ==
    ~disposed =>
        /\ scheduledClocks <= 1 /\ scheduledAIs <= 1
        /\ (scheduledClocks = 1) <=> (isMatchRunning /\ ~isPaused)
        /\ (scheduledAIs = 1) <=> (isMatchRunning /\ ~isPaused)
        /\ timerInterval <=> (scheduledClocks = 1)
        /\ aiActionInterval <=> (scheduledAIs = 1)

\* A match resumed in its second round: one clock and one AI interval.
C37_Witness ==
    /\ lastOp.op = "pauseMatch" /\ lastOp.accepted
    /\ isMatchRunning /\ ~isPaused
    /\ currentRound = 2
    /\ scheduledClocks = 1 /\ scheduledAIs = 1

\* The events of a round or of a hit.
RoundAndHitEvents ==
    {"round_end", "round_start", "hit_landed", "block_success", "player_damaged",
     "score_update"}

\* A step taken from an ended match, other than by the operations in resuming:
\* it emits no event of a round or of a hit, changes no fighter's health, score
\* or comboCount, and is not a run of the round clock's callback.
QuietAfterMatchEnd(resuming) ==
    (Phase(isMatchRunning, isPaused, winner) = "Ended" /\ lastOp'.op \notin resuming) =>
        /\ \A k \in 1..Len(emitted') : emitted'[k].kind \notin RoundAndHitEvents
        /\ \A i \in 0..1 :
              /\ players'[i].health = players[i].health
              /\ players'[i].score = players[i].score
              /\ players'[i].comboCount = players[i].comboCount
        /\ lastOp'.op # "roundTimer"

\* C38 as stated: after MatchEnd{winner}, by round exhaustion or by knockout,
\* no RoundEnd, RoundStart, HitLanded, BlockSuccess, PlayerDamaged or
\* ScoreUpdate is emitted and no fighter's health, score or comboCount changes
\* until the next start(); the round clock does not fire after the end.
C38_QuietUntilStart == [][QuietAfterMatchEnd({"startMatch"})]_vars

\* C38 amended: the same until the next start() or reset().
C38_QuietUntilStartOrReset == [][QuietAfterMatchEnd({"startMatch", "resetMatch"})]_vars

\* An uppercut accepted after a knockout has ended the match: nothing emitted.
C38_Witness ==
    /\ lastOp.op = "setPlayerAction" /\ lastOp.accepted /\ lastOp.sym = "uppercut"
    /\ ~isMatchRunning /\ winner # Null
    /\ players[1].health = 0
    /\ emitted = <<>>

\* The step changes lastActionTime of fighter i: outside the passing of time,
\* the age of the timestamp is another one.
StampChanges(i) ==
    lastOp'.op # "advance" /\ players'[i].sinceLastAction # players[i].sinceLastAction

\* lastActionTime of a fighter changes only by an accepted setPlayerAction call
\* on that fighter or by one of the operations in others; a call on a fighter
\* whose last accepted call is 200 ms old is accepted.
StampOnlyByAcceptedCall(others) ==
    /\ \A i \in 0..1 :
          StampChanges(i) =>
              \/ lastOp'.op = "setPlayerAction" /\ lastOp'.idx = i /\ lastOp'.accepted
              \/ lastOp'.op \in others
    /\ (lastOp'.op = "setPlayerAction" /\ lastOp'.idx \in 0..1
           /\ players[lastOp'.idx].sinceLastAction = ActionCooldown)
          => /\ lastOp'.accepted
             /\ players'[lastOp'.idx].action = lastOp'.sym
             /\ players'[lastOp'.idx].sinceLastAction = 0

\* C39 as stated: a fighter's lastActionTime changes only when a
\* setPlayerAction call on that fighter is accepted, not by a rejected call, a
\* call on the other fighter or start(); a call made 200 ms after the last
\* accepted one is accepted.
C39_StampOnlyByAcceptedCall == [][StampOnlyByAcceptedCall({})]_vars

\* C39 amended: the same, except that reset() sets lastActionTime of both
\* fighters to the time of the reset.
C39_StampByAcceptedCallOrReset == [][StampOnlyByAcceptedCall({"resetMatch"})]_vars

\* A call on fighter 0 accepted in a running match while fighter 1's own
\* window, 100 ms old, goes on.
C39_Witness ==
    /\ lastOp.op = "setPlayerAction" /\ lastOp.accepted /\ lastOp.idx = 0
    /\ isMatchRunning
    /\ players[0].sinceLastAction = 0
    /\ players[1].sinceLastAction = ClockStep

\* What the component displays and what the engine holds of the same names.
ArenaView == <<arena.currentRound, arena.timeRemaining, arena.isMatchRunning, arena.isPaused>>

EngineView == <<currentRound, timeRemaining, isMatchRunning, isPaused>>

\* C40 as stated: given the same starts, pauses, resumes, resets and seconds,
\* with no hit landing, the BoxingArena component displays after every step the
\* engine's currentRound, timeRemaining, isMatchRunning and isPaused, also in a
\* second match started after the first ended by round exhaustion.
C40_ArenaShowsEngineState == ArenaView = EngineView

=============================================================================
